---- MODULE Spec2Model ----
(***************************************************************************)
(* FluentHour session runner.  The repository holds four snapshots of the  *)
(* same application; each has its own runner:                              *)
(*   "App" : src/src/App.tsx      (Runner component, SessionState record)  *)
(*   "P3"  : src/unnamed/part_003 (tick effect in App, SessionRunner)      *)
(*   "P4"  : src/unnamed/part_004 (running/secondsLeft hooks, profiles)    *)
(*   "P5"  : src/unnamed/part_005 (running/secondsLeft hooks)              *)
(* The variable `variant` fixes, at Init, which snapshot a behaviour is a  *)
(* run of.  One action models one event-loop task: the handler or timer    *)
(* callback, the React render that follows it and the effects of that      *)
(* render (cleanup first, then the effect body).                           *)
(*                                                                         *)
(* Time is counted in model units; Period units make up the 1000 ms of     *)
(* window.setInterval(..., 1000).  An installed interval is a countdown to *)
(* its next firing; Advance lets one unit of time pass and is blocked      *)
(* while a timer is due.                                                   *)
(***************************************************************************)
EXTENDS Integers, Sequences, FiniteSets, TLC

VARIABLES
  variant,        \* which snapshot runs
  screen,         \* "home" | "session"
  session,        \* App/P3: SessionState record, or NoSession (null)
  active,         \* P4/P5: the active Session (template), or NoTemplate
  phaseIdx,       \* P4/P5
  secondsLeft,    \* P4/P5
  running,        \* P4/P5
  phaseDone,      \* P4/P5: set of phase indexes marked done
  sessionEnded,   \* P4/P5
  tickRef,        \* intervalRef (App) / tickRef (P3,P4,P5): handle, 0 = null
  timers,         \* installed countdown intervals: handle -> units to next firing, -1 = not installed
  timeTimer,      \* App: the time-tracking interval, units to next firing, -1 = not installed
  stopPending,    \* P4/P5: number of queued window.setTimeout(() => setRunning(false), 0)
  runElapsed,     \* P4/P5: nowMs() - runStartedAtRef.current, -1 when the ref is null
  totalTime,      \* time.totalSeconds (App,P3) / time.totalMs in units (P4,P5); MaxTotal stands for "MaxTotal or more"
  ticks,          \* history: ticks applied to the current phase since its countdown was last loaded
  zeroed,         \* history: a tick has brought the current phase's countdown to zero
  endedBy,        \* history: how each phase below the current index ended in this run
  sinceTick,      \* history: units of time since the last tick was applied, capped at Period
  library,        \* the templates / sessions loaded from the library text
  completed,      \* the completion store: session id -> marker (0 = no entry)
  stamp,          \* Date.now() as a logical clock; MaxStamp stands for "MaxStamp or later"
  remarked,       \* history: "Mark complete" has been pressed on a session already marked
  recents,        \* recents / recentIdsByLevel: level -> list of recently shown ids
  level,          \* settings.preferredLevel / progress.level / state.level
  mode,           \* settings.homeMode / settings.mode / progress.mode / state.mode
  bias,           \* settings.categoryBias (App.tsx only)
  libraryText,    \* the text of the library file, a sequence of lines
  clipboard,      \* the text the user has copied, to paste into the import box
  importPaste,    \* the text pasted into the import box, a sequence of lines
  imported,       \* imported (App) / imports (P3): parsed records; userLibraryText (P4): lines
  sessions,       \* the catalog parsed from the texts, in catalog order
  showAdvanced,   \* P4/P5: the Advanced card, which holds the helper guidance, is open
  activeId,       \* P4: store.activeId, the language profile in use
  profiles,       \* P4: the progress stored in each language profile that is not in use
  startedIn       \* history, P4: the profile in use when the session at hand was started, 0 = none

vars == <<variant, screen, session, active, phaseIdx, secondsLeft, running, phaseDone,
          sessionEnded, tickRef, timers, timeTimer, stopPending, runElapsed, totalTime,
          ticks, zeroed, endedBy, sinceTick, library, completed, stamp, remarked, recents,
          level, mode, bias, libraryText, clipboard, importPaste, imported, sessions,
          showAdvanced, activeId, profiles, startedIn>>

(* The completion store and its clock *)
storeVars == <<completed, stamp, remarked>>
(* The catalog and the texts it is parsed from *)
catalogVars == <<library, libraryText, clipboard, importPaste, imported, sessions>>
(* The settings the selection reads *)
pickVars == <<recents, level, mode, bias>>
(* The shell around the runner: the Advanced card and the language profiles *)
shellVars == <<showAdvanced, activeId, profiles, startedIn>>
(* Everything the runner's timers never touch *)
homeVars == <<catalogVars, storeVars, pickVars, shellVars>>

(* ------------------------------ bounds --------------------------------- *)
MaxPhases == 2
MaxMinutes == 1
Period == 2
MaxTotal == 3
MaxHandles == 2
MaxLevels == 2
MaxStamp == 2
MaxStoreSessions == 2
MaxPickSessions == 7
MaxPathSessions == 3
MaxImported == 4
MaxChunks == 5
MaxCategories == 2
MaxProfiles == 2
MaxBullets == 2

(* ---------------------------- constants -------------------------------- *)
SecondsPerMinute == 60
(* recents[level].slice(0, 6), pickRandomWithVariety(list, recent, 6) *)
AvoidWindow == 6

(* CEFR levels in their order; the preferred level starts at "A2" *)
Levels == 1..MaxLevels
DefaultLevel == 1
Categories == 1..MaxCategories
AnyCategory == 0
DefaultMode(v) == IF v = "P4" THEN "path" ELSE "random"

Variants == {"App", "P3", "P4", "P5"}
SessionVariants == {"App", "P3"}
HookVariants == {"P4", "P5"}

NoSession == [null |-> TRUE]
(* The place of the profile in use in `profiles`: its progress is in the    *)
(* variables totalTime, completed, level, mode and recents                  *)
InUse == [inUse |-> TRUE]
NoTemplate == [null |-> TRUE]
Undefined == "undefined"

Min(a, b) == IF a < b THEN a ELSE b
Max(a, b) == IF a > b THEN a ELSE b

(* clampMinutes of App.tsx: Math.max(0, Math.min(180, Math.round(n))) *)
clampMinutes(mins) == Max(0, Min(180, mins))

(* clamp of part_003 *)
clamp(n, lo, hi) == Min(hi, Max(lo, n))

(* JavaScript `x || 0` on a number *)
OrZero(n) == IF n = 0 THEN 0 ELSE n

(* The minutes a parsed phase can carry in each snapshot:                  *)
(*   App : clampMinutes(minutes || 0)            -> 0..180                  *)
(*   P3  : clamp(current.minutes ?? 10, 1, 90)   -> 1..90                   *)
(*   P4  : minutes > 0 ? minutes : inferPhaseMinutes(...)  -> >= 1          *)
(*   P5  : minutes || 0 with minutes = parseInt(...)       -> any integer   *)
MinutesDomain(v) ==
  CASE v = "App" -> 0..MaxMinutes
    [] v = "P3" -> 1..MaxMinutes
    [] v = "P4" -> 1..MaxMinutes
    [] v = "P5" -> (0 - MaxMinutes)..MaxMinutes

PhaseLists(v) == UNION {[1..n -> MinutesDomain(v)] : n \in 1..MaxPhases}

(* A template (Session in P4/P5): its id and its phases.  The phase id of  *)
(* App.tsx is stableId([title, levelText, phTitle, String(minutes)]); with *)
(* the session fields fixed it is a function of the phase title and the    *)
(* minutes.                                                                *)
PhaseId(minutes) == <<"phase", minutes>>
(* The number an id carries, as the path order reads it: numeric(id) of    *)
(* App.tsx 725-728, numberFromId of part_003 167-172; NoNumber is NaN/null *)
NoNumber == 0 - 1
(* pos is the place of the session in the catalog array *)
Session(n, id, number, title, lv, cat, p) ==
  [id |-> id, pos |-> n, number |-> number, level |-> lv, category |-> cat, title |-> title,
   phases |-> [i \in 1..Len(p) |-> [id |-> PhaseId(p[i]), minutes |-> p[i]]]]
Template(n, lv, cat, p) == Session(n, n, NoNumber, n, lv, cat, p)
Catalog(v) == {Template(1, 1, 1, p) : p \in PhaseLists(v)}

(* templates.find((t) => t.id === session.templateId) ?? null *)
currentTemplate ==
  IF session = NoSession THEN NoTemplate
  ELSE IF \E t \in library : t.id = session.templateId
       THEN CHOOSE t \in library : t.id = session.templateId
       ELSE NoTemplate

(* ------------------------- interval timers ----------------------------- *)
NoTimers == [h \in 1..MaxHandles |-> 0 - 1]
Installed(tm) == {h \in 1..MaxHandles : tm[h] >= 0}

(* window.clearInterval(handle): clearing null or a dead handle does nothing *)
clearInterval(tm, h) == IF h \in Installed(tm) THEN [tm EXCEPT ![h] = 0 - 1] ELSE tm

(* window.setInterval(cb, 1000): the new handle *)
FreeHandle(tm) == CHOOSE h \in 1..MaxHandles : h \notin Installed(tm) /\ \A g \in 1..MaxHandles : g \notin Installed(tm) => h <= g
setInterval(tm, h) == [tm EXCEPT ![h] = Period]

Cap(n) == Min(n, MaxTotal)

(* --------------------------- history helpers --------------------------- *)
(* The current phase has already been recorded as ended in this run. *)
Recorded(idx) == Len(endedBy) > idx
RecordEnd(idx, kind) == IF Recorded(idx) THEN endedBy ELSE Append(endedBy, kind)
(* ticks counts up to one past the longest countdown; TicksCap stands for "TicksCap or more" *)
TicksCap == SecondsPerMinute * MaxMinutes + 1
CountTick == Min(ticks + 1, TicksCap)

hookVars == <<active, phaseIdx, secondsLeft, running, phaseDone, sessionEnded, stopPending, runElapsed>>

(* ======================= snapshot "App" (src/src/App.tsx) ============== *)

(* The two effects that follow a render of App and Runner.                 *)
(* Runner, App.tsx 1150-1198: deps [s.isRunning, props, t]; props is a new *)
(* object on every render, so every render of Runner runs the cleanup      *)
(* (clear intervalRef) and then the effect body.  Runner is mounted only   *)
(* on the session screen and returns before its hooks when !s || !t.       *)
(* A variant of the effect below that installs the interval without the cleanup's clearInterval *)
RunnerTickEffect_NoClear(tm, ref, s2, scr2) ==
  IF scr2 = "session" /\ s2 # NoSession /\ s2.isRunning
  THEN LET h == FreeHandle(tm) IN [timers |-> setInterval(tm, h), ref |-> h]
  ELSE [timers |-> clearInterval(tm, ref), ref |-> 0]

RunnerTickEffect(tm, ref, s2, scr2) ==
  LET tm1 == clearInterval(tm, ref)
  IN  IF scr2 = "session" /\ s2 # NoSession /\ s2.isRunning
      THEN LET h == FreeHandle(tm1) IN [timers |-> setInterval(tm1, h), ref |-> h]
      ELSE [timers |-> tm1, ref |-> 0]

(* App.tsx 824-837: deps [screen, session?.isRunning, currentTemplate]. *)
TimeCond(s, scr) == scr = "session" /\ s # NoSession /\ s.isRunning
(* A variant of the effect below that keeps the time-tracking interval while paused *)
TimeEffect_IgnoresPause(tt, s2, scr2) ==
  IF scr2 = "session" /\ s2 # NoSession
  THEN (IF tt >= 0 THEN tt ELSE Period)
  ELSE 0 - 1
TimeEffect(tt, s2, scr2) ==
  IF TimeCond(s2, scr2)
  THEN (IF TimeCond(session, screen) THEN tt ELSE Period)
  ELSE 0 - 1

(* Runner, App.tsx 1200-1205: while running, helper must be hidden. *)
HideHelperEffect(s) == IF s.isRunning /\ s.showHelper THEN [s EXCEPT !.showHelper = FALSE] ELSE s

AppRender(s2, scr2, tm, tt) ==
  LET e == RunnerTickEffect(tm, tickRef, s2, scr2)
  IN  /\ session' = s2
      /\ screen' = scr2
      /\ timers' = e.timers
      /\ tickRef' = e.ref
      /\ timeTimer' = TimeEffect(tt, s2, scr2)

(* pushRecent, App.tsx 709-715 and part_003 798-804:                       *)
(* [id, ...cur.filter((x) => x !== id)].slice(0, max)                      *)
pushRecent(r, lv, id, max) ==
  [r EXCEPT ![lv] = SubSeq(<<id>> \o SelectSeq(r[lv], LAMBDA x : x # id), 1,
                           Min(max, 1 + Len(SelectSeq(r[lv], LAMBDA x : x # id))))]

(* startPerfectHour / startTemplateById / startTemplateFromSheet ->        *)
(* startSessionFromTemplate, App.tsx 756-775; reachable on the home screen *)
startSessionFromTemplate(t) ==
  /\ variant = "App"
  /\ screen = "home"
  /\ AppRender([templateId |-> t.id,
                phaseIndex |-> 0,
                remainingSeconds |-> clampMinutes(t.phases[1].minutes) * SecondsPerMinute,
                isRunning |-> FALSE,
                showHelper |-> FALSE,
                banner |-> Undefined,
                completedPhaseIds |-> <<>>,
                completedAtEnd |-> FALSE], "session", timers, timeTimer)
  /\ ticks' = 0 /\ zeroed' = FALSE /\ endedBy' = <<>>
  /\ level' = t.level
  /\ recents' = pushRecent(recents, t.level, t.id, 8)
  /\ UNCHANGED <<variant, hookVars, totalTime, sinceTick>>
  /\ UNCHANGED <<catalogVars, shellVars, storeVars, mode, bias>>

(* Runner.toggleRun, App.tsx 1207-1209 *)
toggleRun_App ==
  /\ variant = "App"
  /\ screen = "session" /\ session # NoSession
  /\ currentTemplate # NoTemplate
  /\ AppRender(HideHelperEffect([session EXCEPT !.isRunning = ~session.isRunning, !.banner = Undefined]),
               screen, timers, timeTimer)
  /\ UNCHANGED <<variant, hookVars, totalTime, ticks, zeroed, endedBy, sinceTick>>
  /\ UNCHANGED homeVars

(* completedPhaseIds of the tick callback and of skipToNext *)
AddCompleted(ids, pid) == IF \E i \in 1..Len(ids) : ids[i] = pid THEN ids ELSE Append(ids, pid)

(* The updater of the interval callback, App.tsx 1161-1191 *)
(* A variant of the updater below that leaves isRunning set when the phase ends *)
TickUpdate_App_KeepsRunning(prev, t) ==
  IF prev = NoSession \/ t = NoTemplate THEN prev
  ELSE IF ~prev.isRunning THEN prev
  ELSE LET next == prev.remainingSeconds - 1 IN
       IF next > 0 THEN [prev EXCEPT !.remainingSeconds = next]
       ELSE LET completedPhaseIds == AddCompleted(prev.completedPhaseIds, t.phases[prev.phaseIndex + 1].id)
                atEnd == prev.phaseIndex >= Len(t.phases) - 1
            IN  IF atEnd
                THEN [prev EXCEPT !.completedPhaseIds = completedPhaseIds, !.remainingSeconds = 0,
                                  !.showHelper = FALSE, !.banner = "Session complete"]
                ELSE [prev EXCEPT !.completedPhaseIds = completedPhaseIds,
                                  !.phaseIndex = prev.phaseIndex + 1,
                                  !.remainingSeconds = clampMinutes(t.phases[prev.phaseIndex + 2].minutes) * SecondsPerMinute,
                                  !.showHelper = FALSE, !.banner = "Phase complete"]

TickUpdate_App(prev, t) ==
  IF prev = NoSession \/ t = NoTemplate THEN prev
  ELSE IF ~prev.isRunning THEN prev
  ELSE LET next == prev.remainingSeconds - 1 IN
       IF next > 0 THEN [prev EXCEPT !.remainingSeconds = next]
       ELSE LET completedPhaseIds == AddCompleted(prev.completedPhaseIds, t.phases[prev.phaseIndex + 1].id)
                atEnd == prev.phaseIndex >= Len(t.phases) - 1
            IN  IF atEnd
                THEN [prev EXCEPT !.completedPhaseIds = completedPhaseIds, !.remainingSeconds = 0,
                                  !.isRunning = FALSE, !.showHelper = FALSE, !.banner = "Session complete"]
                ELSE [prev EXCEPT !.completedPhaseIds = completedPhaseIds,
                                  !.phaseIndex = prev.phaseIndex + 1,
                                  !.remainingSeconds = clampMinutes(t.phases[prev.phaseIndex + 2].minutes) * SecondsPerMinute,
                                  !.isRunning = FALSE, !.showHelper = FALSE, !.banner = "Phase complete"]

(* One firing of the countdown interval, App.tsx 1160-1192, and the render after it *)
Tick_App ==
  /\ variant = "App"
  /\ \E h \in Installed(timers) :
       /\ timers[h] = 0
       /\ LET s2 == TickUpdate_App(session, currentTemplate)
              tm == [timers EXCEPT ![h] = Period]
              applied == s2 # session
              ended == applied /\ session.remainingSeconds - 1 <= 0
          IN  /\ IF applied THEN AppRender(s2, screen, tm, timeTimer)
                 ELSE timers' = tm /\ UNCHANGED <<session, screen, tickRef, timeTimer>>
              /\ ticks' = IF ~applied THEN ticks
                          ELSE IF s2.phaseIndex # session.phaseIndex THEN 0
                          ELSE CountTick
              /\ zeroed' = IF ~applied THEN zeroed
                           ELSE IF s2.phaseIndex # session.phaseIndex THEN FALSE
                           ELSE (zeroed \/ ended)
              /\ endedBy' = IF ended THEN RecordEnd(session.phaseIndex, "zero")
                            ELSE IF applied /\ s2.phaseIndex # session.phaseIndex
                                 THEN RecordEnd(session.phaseIndex, "early")
                            ELSE endedBy
              /\ sinceTick' = IF applied THEN 0 ELSE sinceTick
  /\ UNCHANGED <<variant, hookVars, totalTime>>
  /\ UNCHANGED homeVars

(* One firing of the time-tracking interval, App.tsx 828-834, and the render after it *)
TimeTick_App ==
  /\ variant = "App"
  /\ timeTimer = 0
  /\ totalTime' = Cap(totalTime + 1)
  /\ AppRender(session, screen, timers, Period)
  /\ UNCHANGED <<variant, hookVars, ticks, zeroed, endedBy, sinceTick>>
  /\ UNCHANGED homeVars

(* Runner.restartPhase, App.tsx 1211-1222; phase is t.phases[s.phaseIndex] ?? t.phases[0] *)
restartPhase_App ==
  /\ variant = "App"
  /\ screen = "session" /\ session # NoSession
  /\ currentTemplate # NoTemplate
  /\ LET t == currentTemplate
         phase == IF session.phaseIndex + 1 \in DOMAIN t.phases THEN t.phases[session.phaseIndex + 1] ELSE t.phases[1]
     IN  AppRender([session EXCEPT !.remainingSeconds = clampMinutes(phase.minutes) * SecondsPerMinute,
                                   !.isRunning = FALSE, !.showHelper = FALSE, !.banner = "Restarted"],
                   screen, timers, timeTimer)
  /\ ticks' = 0 /\ zeroed' = FALSE
  /\ UNCHANGED <<variant, hookVars, totalTime, endedBy, sinceTick>>
  /\ UNCHANGED homeVars

(* A variant of the updater below that moves on without loading the next phase's duration *)
SkipUpdate_App_KeepsRemaining(prev, t) ==
  LET completedPhaseIds == AddCompleted(prev.completedPhaseIds, t.phases[prev.phaseIndex + 1].id)
      atEnd == prev.phaseIndex >= Len(t.phases) - 1
  IN  IF atEnd
      THEN [prev EXCEPT !.completedPhaseIds = completedPhaseIds, !.isRunning = FALSE,
                        !.remainingSeconds = 0, !.showHelper = FALSE, !.banner = "Session complete"]
      ELSE [prev EXCEPT !.completedPhaseIds = completedPhaseIds,
                        !.phaseIndex = prev.phaseIndex + 1,
                        !.isRunning = FALSE, !.showHelper = FALSE, !.banner = "Moved to next phase"]

(* Runner.skipToNext, App.tsx 1224-1253 *)
SkipUpdate_App(prev, t) ==
  LET completedPhaseIds == AddCompleted(prev.completedPhaseIds, t.phases[prev.phaseIndex + 1].id)
      atEnd == prev.phaseIndex >= Len(t.phases) - 1
  IN  IF atEnd
      THEN [prev EXCEPT !.completedPhaseIds = completedPhaseIds, !.isRunning = FALSE,
                        !.remainingSeconds = 0, !.showHelper = FALSE, !.banner = "Session complete"]
      ELSE [prev EXCEPT !.completedPhaseIds = completedPhaseIds,
                        !.phaseIndex = prev.phaseIndex + 1,
                        !.remainingSeconds = clampMinutes(t.phases[prev.phaseIndex + 2].minutes) * SecondsPerMinute,
                        !.isRunning = FALSE, !.showHelper = FALSE, !.banner = "Moved to next phase"]

skipToNext_App ==
  /\ variant = "App"
  /\ screen = "session" /\ session # NoSession
  /\ currentTemplate # NoTemplate
  /\ LET s2 == SkipUpdate_App(session, currentTemplate)
     IN  /\ AppRender(s2, screen, timers, timeTimer)
         /\ ticks' = IF s2.phaseIndex # session.phaseIndex THEN 0 ELSE ticks
         /\ zeroed' = IF s2.phaseIndex # session.phaseIndex THEN FALSE ELSE zeroed
  /\ endedBy' = RecordEnd(session.phaseIndex, "skip")
  /\ UNCHANGED <<variant, hookVars, totalTime, sinceTick>>
  /\ UNCHANGED homeVars

(* The Show/Hide helper button, App.tsx 1373-1380, rendered only when !s.isRunning *)
toggleHelper_App ==
  /\ variant = "App"
  /\ screen = "session" /\ session # NoSession /\ ~session.isRunning
  /\ currentTemplate # NoTemplate
  /\ AppRender(HideHelperEffect([session EXCEPT !.showHelper = ~session.showHelper]), screen, timers, timeTimer)
  /\ UNCHANGED <<variant, hookVars, totalTime, ticks, zeroed, endedBy, sinceTick>>
  /\ UNCHANGED homeVars

(* goHome, App.tsx 813-816: Runner unmounts, its cleanup clears the interval *)
goHome ==
  /\ variant = "App"
  /\ screen = "session"
  /\ AppRender(NoSession, "home", timers, timeTimer)
  /\ ticks' = 0 /\ zeroed' = FALSE /\ endedBy' = <<>>
  /\ UNCHANGED <<variant, hookVars, totalTime, sinceTick>>
  /\ UNCHANGED homeVars

(* ======================= snapshot "P3" (src/unnamed/part_003) ========== *)

(* The tick effect of App, part_003 851-902: deps [session?.isRunning,     *)
(* allTemplates, setTime]; it re-runs only when session?.isRunning changes *)
IsRunning(s) == s # NoSession /\ s.isRunning
TickEffect_P3(tm, ref, s2) ==
  IF IsRunning(s2) = IsRunning(session) THEN [timers |-> tm, ref |-> ref]
  ELSE LET tm1 == clearInterval(tm, ref)
       IN  IF IsRunning(s2)
           THEN LET h == FreeHandle(tm1) IN [timers |-> setInterval(tm1, h), ref |-> h]
           ELSE [timers |-> tm1, ref |-> 0]

Render_P3(s2, scr2, tm) ==
  LET e == TickEffect_P3(tm, tickRef, s2)
  IN  /\ session' = s2
      /\ screen' = scr2
      /\ timers' = e.timers
      /\ tickRef' = e.ref
      /\ timeTimer' = timeTimer

(* startFromHome / checklist row -> startTemplate, part_003 822-835 *)
startTemplate(t) ==
  /\ variant = "P3"
  /\ screen = "home"
  /\ Render_P3([templateId |-> t.id,
                phaseIndex |-> 0,
                remainingSeconds |-> clamp(t.phases[1].minutes, 1, 90) * SecondsPerMinute,
                isRunning |-> FALSE,
                showHelper |-> FALSE,
                banner |-> Undefined,
                isFinished |-> FALSE], "session", timers)
  /\ ticks' = 0 /\ zeroed' = FALSE /\ endedBy' = <<>>
  /\ recents' = pushRecent(recents, t.level, t.id, 6)
  /\ UNCHANGED <<variant, hookVars, totalTime, sinceTick>>
  /\ UNCHANGED <<catalogVars, shellVars, storeVars, level, mode, bias>>

(* A variant of toggleRun below that reloads the phase's full duration on every press *)
toggleRun_P3_Reloads ==
  /\ variant = "P3"
  /\ screen = "session" /\ session # NoSession
  /\ currentTemplate # NoTemplate
  /\ Render_P3(HideHelperEffect([session EXCEPT !.isRunning = ~session.isRunning, !.banner = Undefined,
                                                !.remainingSeconds = clamp(currentTemplate.phases[session.phaseIndex + 1].minutes, 1, 90) * SecondsPerMinute]),
               screen, timers)
  /\ UNCHANGED <<variant, hookVars, totalTime, ticks, zeroed, endedBy, sinceTick>>
  /\ UNCHANGED homeVars

(* SessionRunner.toggleRun, part_003 1412-1414 *)
toggleRun_P3 ==
  /\ variant = "P3"
  /\ screen = "session" /\ session # NoSession
  /\ currentTemplate # NoTemplate
  /\ Render_P3(HideHelperEffect([session EXCEPT !.isRunning = ~session.isRunning, !.banner = Undefined]),
               screen, timers)
  /\ UNCHANGED <<variant, hookVars, totalTime, ticks, zeroed, endedBy, sinceTick>>
  /\ UNCHANGED homeVars

(* A variant of the updater below that ends the phase one second early *)
TickUpdate_P3_EndsEarly(prev, tmpl) ==
  LET nextRemaining == prev.remainingSeconds - 1 IN
  IF nextRemaining > 1 THEN [prev EXCEPT !.remainingSeconds = nextRemaining]
  ELSE IF tmpl = NoTemplate
       THEN [prev EXCEPT !.remainingSeconds = 0, !.isRunning = FALSE, !.showHelper = FALSE]
  ELSE IF prev.phaseIndex >= Len(tmpl.phases) - 1
       THEN [prev EXCEPT !.remainingSeconds = 0, !.isRunning = FALSE, !.showHelper = FALSE,
                         !.banner = "Session complete", !.isFinished = TRUE]
  ELSE [prev EXCEPT !.phaseIndex = prev.phaseIndex + 1,
                    !.remainingSeconds = clamp(tmpl.phases[prev.phaseIndex + 2].minutes, 1, 90) * SecondsPerMinute,
                    !.isRunning = FALSE, !.showHelper = FALSE, !.banner = "Phase complete"]

(* The updater of the interval callback, part_003 862-895 *)
TickUpdate_P3(prev, tmpl) ==
  LET nextRemaining == prev.remainingSeconds - 1 IN
  IF nextRemaining > 0 THEN [prev EXCEPT !.remainingSeconds = nextRemaining]
  ELSE IF tmpl = NoTemplate
       THEN [prev EXCEPT !.remainingSeconds = 0, !.isRunning = FALSE, !.showHelper = FALSE]
  ELSE IF prev.phaseIndex >= Len(tmpl.phases) - 1
       THEN [prev EXCEPT !.remainingSeconds = 0, !.isRunning = FALSE, !.showHelper = FALSE,
                         !.banner = "Session complete", !.isFinished = TRUE]
  ELSE [prev EXCEPT !.phaseIndex = prev.phaseIndex + 1,
                    !.remainingSeconds = clamp(tmpl.phases[prev.phaseIndex + 2].minutes, 1, 90) * SecondsPerMinute,
                    !.isRunning = FALSE, !.showHelper = FALSE, !.banner = "Phase complete"]

(* One firing of the countdown interval, part_003 861-896; it also adds the second to time.totalSeconds *)
Tick_P3 ==
  /\ variant = "P3"
  /\ \E h \in Installed(timers) :
       /\ timers[h] = 0
       /\ LET applied == session # NoSession /\ session.isRunning
              s2 == IF applied THEN TickUpdate_P3(session, currentTemplate) ELSE session
              tm == [timers EXCEPT ![h] = Period]
              ended == applied /\ session.remainingSeconds - 1 <= 0
          IN  /\ Render_P3(s2, screen, tm)
              /\ totalTime' = IF applied THEN Cap(totalTime + 1) ELSE totalTime
              /\ ticks' = IF ~applied THEN ticks
                          ELSE IF s2.phaseIndex # session.phaseIndex THEN 0
                          ELSE CountTick
              /\ zeroed' = IF ~applied THEN zeroed
                           ELSE IF s2.phaseIndex # session.phaseIndex THEN FALSE
                           ELSE (zeroed \/ ended)
              /\ endedBy' = IF ended THEN RecordEnd(session.phaseIndex, "zero")
                            ELSE IF applied /\ s2.phaseIndex # session.phaseIndex
                                 THEN RecordEnd(session.phaseIndex, "early")
                            ELSE endedBy
              /\ sinceTick' = IF applied THEN 0 ELSE sinceTick
  /\ UNCHANGED <<variant, hookVars>>
  /\ UNCHANGED homeVars

(* SessionRunner.skipToNext, part_003 1416-1427 *)
SkipUpdate_P3(prev, t) ==
  IF prev.phaseIndex >= Len(t.phases) - 1
  THEN [prev EXCEPT !.isRunning = FALSE, !.remainingSeconds = 0, !.showHelper = FALSE,
                    !.banner = "Session complete", !.isFinished = TRUE]
  ELSE [prev EXCEPT !.phaseIndex = prev.phaseIndex + 1,
                    !.remainingSeconds = clamp(t.phases[prev.phaseIndex + 2].minutes, 1, 90) * SecondsPerMinute,
                    !.isRunning = FALSE, !.showHelper = FALSE, !.banner = "Moved to next phase"]

skipToNext_P3 ==
  /\ variant = "P3"
  /\ screen = "session" /\ session # NoSession
  /\ currentTemplate # NoTemplate
  /\ LET s2 == SkipUpdate_P3(session, currentTemplate)
     IN  /\ Render_P3(s2, screen, timers)
         /\ ticks' = IF s2.phaseIndex # session.phaseIndex THEN 0 ELSE ticks
         /\ zeroed' = IF s2.phaseIndex # session.phaseIndex THEN FALSE ELSE zeroed
  /\ endedBy' = RecordEnd(session.phaseIndex, "skip")
  /\ UNCHANGED <<variant, hookVars, totalTime, sinceTick>>
  /\ UNCHANGED homeVars

(* SessionRunner.toggleHelper, part_003 1429-1431; its button is disabled while running *)
toggleHelper_P3 ==
  /\ variant = "P3"
  /\ screen = "session" /\ session # NoSession /\ ~session.isRunning
  /\ currentTemplate # NoTemplate
  /\ Render_P3(HideHelperEffect([session EXCEPT !.showHelper = ~session.showHelper]), screen, timers)
  /\ UNCHANGED <<variant, hookVars, totalTime, ticks, zeroed, endedBy, sinceTick>>
  /\ UNCHANGED homeVars

(* The Home button of the header, part_003 1002-1012 *)
goHome_P3 ==
  /\ variant = "P3"
  /\ screen = "session"
  /\ Render_P3(NoSession, "home", timers)
  /\ ticks' = 0 /\ zeroed' = FALSE /\ endedBy' = <<>>
  /\ UNCHANGED <<variant, hookVars, totalTime, sinceTick>>
  /\ UNCHANGED homeVars

(* ============ snapshots "P4" (part_004) and "P5" (part_005) ============ *)
sessionVars == <<session, timeTimer>>

(* accumulateRunTime, part_004 963-978, and the inline accrual of the      *)
(* effect of part_005 749-755: add nowMs() - runStartedAtRef.current to    *)
(* time.totalMs and null the ref                                           *)
accumulateRunTime(re, tot) ==
  IF re = 0 - 1 THEN [runElapsed |-> re, totalTime |-> tot]
  ELSE IF re <= 0 THEN [runElapsed |-> 0 - 1, totalTime |-> tot]
  ELSE [runElapsed |-> 0 - 1, totalTime |-> Cap(tot + re)]

(* The ticking effect of part_004 980-1013, deps [running, accumulateRunTime]: *)
(* it runs when `running` changes                                              *)
RunEffect_P4(run2, tm, ref, re, tot) ==
  IF run2 = running THEN [timers |-> tm, ref |-> ref, runElapsed |-> re, totalTime |-> tot]
  ELSE IF ~run2
       THEN LET tm1 == clearInterval(tm, ref)
                a == accumulateRunTime(re, tot)
            IN  [timers |-> tm1, ref |-> 0, runElapsed |-> a.runElapsed, totalTime |-> a.totalTime]
       ELSE LET tm1 == clearInterval(tm, ref)
                h == FreeHandle(tm1)
            IN  [timers |-> setInterval(tm1, h), ref |-> h,
                 runElapsed |-> IF re = 0 - 1 THEN 0 ELSE re, totalTime |-> tot]

(* The ticking effect of part_005 742-779, deps [running]: on start it     *)
(* installs the interval without clearing tickRef first                    *)
RunEffect_P5(run2, tm, ref, re, tot) ==
  IF run2 = running THEN [timers |-> tm, ref |-> ref, runElapsed |-> re, totalTime |-> tot]
  ELSE IF ~run2
       THEN LET tm1 == clearInterval(tm, ref)
                a == accumulateRunTime(re, tot)
            IN  [timers |-> tm1, ref |-> 0, runElapsed |-> a.runElapsed, totalTime |-> a.totalTime]
       ELSE LET h == FreeHandle(tm)
            IN  [timers |-> setInterval(tm, h), ref |-> h,
                 runElapsed |-> IF re = 0 - 1 THEN 0 ELSE re, totalTime |-> tot]

RunEffect(run2, tm, ref, re, tot) ==
  IF variant = "P4" THEN RunEffect_P4(run2, tm, ref, re, tot) ELSE RunEffect_P5(run2, tm, ref, re, tot)

HookRender(run2, tm, ref, re, tot) ==
  LET e == RunEffect(run2, tm, ref, re, tot)
  IN  /\ running' = run2
      /\ timers' = e.timers
      /\ tickRef' = e.ref
      /\ runElapsed' = e.runElapsed
      /\ totalTime' = e.totalTime

(* chooseAndStart / checklist row -> startSession, part_004 1050-1067; reachable on HOME *)
startSession_P4(s) ==
  /\ variant = "P4"
  /\ screen = "home"
  /\ active' = s
  /\ screen' = "session"
  /\ phaseIdx' = 0
  /\ phaseDone' = {}
  /\ sessionEnded' = FALSE
  /\ secondsLeft' = OrZero(s.phases[1].minutes) * SecondsPerMinute
  /\ HookRender(FALSE, clearInterval(timers, tickRef), 0, 0 - 1, totalTime)
  /\ ticks' = 0 /\ zeroed' = FALSE /\ endedBy' = <<>>
  /\ UNCHANGED <<variant, sessionVars, stopPending, sinceTick>>
  /\ showAdvanced' = FALSE
  /\ startedIn' = activeId
  /\ UNCHANGED <<catalogVars, activeId, profiles, storeVars, level, mode, bias>>

(* A variant of startSession below that keeps the previous run's phaseDone and sessionEnded *)
startSession_P5_KeepsDone(s) ==
  /\ variant = "P5"
  /\ screen = "home"
  /\ active' = s
  /\ screen' = "session"
  /\ phaseIdx' = 0
  /\ UNCHANGED <<phaseDone, sessionEnded>>
  /\ secondsLeft' = OrZero(s.phases[1].minutes) * SecondsPerMinute
  /\ HookRender(FALSE, timers, tickRef, runElapsed, totalTime)
  /\ ticks' = 0 /\ zeroed' = FALSE /\ endedBy' = <<>>
  /\ UNCHANGED <<variant, sessionVars, stopPending, sinceTick>>
  /\ showAdvanced' = FALSE
  /\ UNCHANGED <<catalogVars, activeId, profiles, startedIn, storeVars, level, mode, bias>>

(* A variant of startSession that keeps the phase index of the previous run *)
startSession_P5_KeepsIndex(s) ==
  /\ variant = "P5"
  /\ screen = "home"
  /\ active' = s
  /\ screen' = "session"
  /\ UNCHANGED phaseIdx
  /\ phaseDone' = {}
  /\ sessionEnded' = FALSE
  /\ secondsLeft' = OrZero(s.phases[1].minutes) * SecondsPerMinute
  /\ HookRender(FALSE, timers, tickRef, runElapsed, totalTime)
  /\ ticks' = 0 /\ zeroed' = FALSE /\ endedBy' = <<>>
  /\ UNCHANGED <<variant, sessionVars, stopPending, sinceTick>>
  /\ showAdvanced' = FALSE
  /\ UNCHANGED <<catalogVars, activeId, profiles, startedIn, storeVars, level, mode, bias>>

(* startSession, part_005 797-808 *)
startSession_P5(s) ==
  /\ variant = "P5"
  /\ screen = "home"
  /\ active' = s
  /\ screen' = "session"
  /\ phaseIdx' = 0
  /\ phaseDone' = {}
  /\ sessionEnded' = FALSE
  /\ secondsLeft' = OrZero(s.phases[1].minutes) * SecondsPerMinute
  /\ HookRender(FALSE, timers, tickRef, runElapsed, totalTime)
  /\ ticks' = 0 /\ zeroed' = FALSE /\ endedBy' = <<>>
  /\ UNCHANGED <<variant, sessionVars, stopPending, sinceTick>>
  /\ showAdvanced' = FALSE
  /\ UNCHANGED <<catalogVars, activeId, profiles, startedIn, storeVars, level, mode, bias>>

(* A variant of markPhaseDoneAndAdvance below that leaves a skipped phase unmarked *)
markPhaseDoneAndAdvance_SkipUnmarked(kind) ==
  /\ active # NoTemplate
  /\ phaseDone' = IF kind = "skip" THEN phaseDone ELSE phaseDone \cup {phaseIdx}
  /\ LET nextIdx == phaseIdx + 1 IN
     IF nextIdx >= Len(active.phases)
     THEN /\ sessionEnded' = TRUE
          /\ UNCHANGED <<phaseIdx, secondsLeft, ticks, zeroed>>
     ELSE /\ phaseIdx' = nextIdx
          /\ secondsLeft' = OrZero(active.phases[nextIdx + 1].minutes) * SecondsPerMinute
          /\ sessionEnded' = sessionEnded
          /\ ticks' = 0 /\ zeroed' = FALSE
  /\ HookRender(FALSE, timers, tickRef, runElapsed, totalTime)
  /\ endedBy' = RecordEnd(phaseIdx, IF kind = "skip" THEN "skip" ELSE IF secondsLeft = 0 THEN "zero" ELSE "early")
  /\ UNCHANGED <<variant, screen, active, sessionVars, stopPending, sinceTick>>

(* markPhaseDoneAndAdvance, part_004 1090-1102 and part_005 831-843 *)
markPhaseDoneAndAdvance(kind) ==
  /\ active # NoTemplate
  /\ phaseDone' = phaseDone \cup {phaseIdx}
  /\ LET nextIdx == phaseIdx + 1 IN
     IF nextIdx >= Len(active.phases)
     THEN /\ sessionEnded' = TRUE
          /\ UNCHANGED <<phaseIdx, secondsLeft, ticks, zeroed>>
     ELSE /\ phaseIdx' = nextIdx
          /\ secondsLeft' = OrZero(active.phases[nextIdx + 1].minutes) * SecondsPerMinute
          /\ sessionEnded' = sessionEnded
          /\ ticks' = 0 /\ zeroed' = FALSE
  /\ HookRender(FALSE, timers, tickRef, runElapsed, totalTime)
  /\ endedBy' = RecordEnd(phaseIdx, IF kind = "skip" THEN "skip" ELSE IF secondsLeft = 0 THEN "zero" ELSE "early")
  /\ UNCHANGED <<variant, screen, active, sessionVars, stopPending, sinceTick>>

(* skipToNext, part_004 1104-1106 and part_005 845-848; the button is disabled once sessionEnded *)
skipToNext_Hook ==
  /\ variant \in HookVariants
  /\ screen = "session" /\ active # NoTemplate /\ ~sessionEnded
  /\ markPhaseDoneAndAdvance("skip")
  /\ UNCHANGED homeVars

(* toggleRun, part_004 1108-1116 (the control calls finishSession instead  *)
(* once sessionEnded) and part_005 850-859                                 *)
toggleRun_Hook ==
  /\ variant \in HookVariants
  /\ screen = "session" /\ active # NoTemplate
  /\ variant = "P4" => ~sessionEnded
  /\ IF sessionEnded THEN UNCHANGED vars
     ELSE IF secondsLeft = 0 THEN markPhaseDoneAndAdvance("ack")
     ELSE /\ HookRender(~running, timers, tickRef, runElapsed, totalTime)
          /\ UNCHANGED <<variant, screen, active, phaseIdx, secondsLeft, phaseDone, sessionEnded,
                         sessionVars, stopPending, ticks, zeroed, endedBy, sinceTick>>
  /\ UNCHANGED homeVars

(* A variant of the tick below whose test is sec <= 2: the phase ends a second early *)
Tick_Hook_OffByOne ==
  /\ variant \in HookVariants
  /\ \E h \in Installed(timers) :
       /\ timers[h] = 0
       /\ timers' = [timers EXCEPT ![h] = Period]
  /\ IF secondsLeft <= 2
     THEN secondsLeft' = 0 /\ stopPending' = stopPending + 1
     ELSE secondsLeft' = secondsLeft - 1 /\ stopPending' = stopPending
  /\ ticks' = CountTick
  /\ zeroed' = (zeroed \/ secondsLeft <= 2)
  /\ sinceTick' = 0
  /\ UNCHANGED <<variant, screen, active, phaseIdx, running, phaseDone, sessionEnded, tickRef,
                 sessionVars, runElapsed, totalTime, endedBy>>
  /\ UNCHANGED homeVars

(* One firing of the countdown interval, part_004 996-1005 and part_005 762-771 *)
Tick_Hook ==
  /\ variant \in HookVariants
  /\ \E h \in Installed(timers) :
       /\ timers[h] = 0
       /\ timers' = [timers EXCEPT ![h] = Period]
  /\ IF secondsLeft <= 1
     THEN secondsLeft' = 0 /\ stopPending' = stopPending + 1
     ELSE secondsLeft' = secondsLeft - 1 /\ stopPending' = stopPending
  /\ ticks' = CountTick
  /\ zeroed' = (zeroed \/ secondsLeft <= 1)
  /\ sinceTick' = 0
  /\ UNCHANGED <<variant, screen, active, phaseIdx, running, phaseDone, sessionEnded, tickRef,
                 sessionVars, runElapsed, totalTime, endedBy>>
  /\ UNCHANGED homeVars

(* The queued window.setTimeout(() => setRunning(false), 0) of the tick *)
Autopause_Hook ==
  /\ variant \in HookVariants
  /\ stopPending > 0
  /\ stopPending' = stopPending - 1
  /\ HookRender(FALSE, timers, tickRef, runElapsed, totalTime)
  /\ UNCHANGED <<variant, screen, active, phaseIdx, secondsLeft, phaseDone, sessionEnded,
                 sessionVars, ticks, zeroed, endedBy, sinceTick>>
  /\ UNCHANGED homeVars

(* returnHome, part_004 1127-1140 *)
returnHome ==
  /\ variant = "P4"
  /\ screen = "session" /\ active # NoTemplate
  /\ LET a == accumulateRunTime(runElapsed, totalTime)
     IN  HookRender(FALSE, timers, tickRef, a.runElapsed, a.totalTime)
  /\ active' = NoTemplate
  /\ phaseIdx' = 0
  /\ secondsLeft' = 0
  /\ phaseDone' = {}
  /\ sessionEnded' = FALSE
  /\ screen' = "home"
  /\ ticks' = 0 /\ zeroed' = FALSE /\ endedBy' = <<>>
  /\ UNCHANGED <<variant, sessionVars, stopPending, sinceTick>>
  /\ showAdvanced' = FALSE
  /\ startedIn' = 0
  /\ UNCHANGED <<catalogVars, activeId, profiles, recents, mode, bias>>

(* finishSession, part_004 1142-1147, also the Exit button: returnHome with a toast *)
finishSession == returnHome /\ UNCHANGED <<storeVars, level>>

(* The Exit button of part_005 1276: setRunning(false); setScreen("HOME") *)
exit_P5 ==
  /\ variant = "P5"
  /\ screen = "session" /\ active # NoTemplate
  /\ HookRender(FALSE, timers, tickRef, runElapsed, totalTime)
  /\ screen' = "home"
  /\ UNCHANGED <<variant, active, phaseIdx, secondsLeft, phaseDone, sessionEnded, sessionVars,
                 stopPending, ticks, zeroed, endedBy, sinceTick>>
  /\ UNCHANGED homeVars

(* ------------------------------- time ---------------------------------- *)
(* One unit of time passes.  A due interval or a queued zero-delay timeout *)
(* runs before more time passes.                                           *)
Advance ==
  /\ Installed(timers) # {} \/ timeTimer >= 0 \/ runElapsed >= 0
  /\ \A h \in Installed(timers) : timers[h] > 0
  /\ timeTimer # 0
  /\ stopPending = 0
  /\ timers' = [h \in 1..MaxHandles |-> IF timers[h] > 0 THEN timers[h] - 1 ELSE timers[h]]
  /\ timeTimer' = IF timeTimer > 0 THEN timeTimer - 1 ELSE timeTimer
  /\ runElapsed' = IF runElapsed >= 0 THEN Cap(runElapsed + 1) ELSE runElapsed
  /\ sinceTick' = Min(sinceTick + 1, Period)
  /\ UNCHANGED <<variant, screen, session, active, phaseIdx, secondsLeft, running, phaseDone,
                 sessionEnded, tickRef, stopPending, totalTime, ticks, zeroed, endedBy>>
  /\ UNCHANGED homeVars

(* ============================= selection ============================== *)

(* completion.completedAtById[id] (a timestamp), completions[id]?.completed *)
(* (part_003; the entry {completed: false} is the marker -1), and           *)
(* completedIdsByLevel[lvl][id] (true, the marker 1) read as a condition    *)
isCompleted(id) == completed[id] > 0

(* The row of the level sheet: onClick={() => { startSession(s); ... }},    *)
(* part_004 1620-1627 and part_005 1196-1203; the recency list is not touched *)
startFromSheet_P4(s) == startSession_P4(s) /\ recents' = recents
startFromSheet_P5(s) == startSession_P5(s) /\ recents' = recents

(* templates.filter((t) => t.level === level), templatesByLevel[level],     *)
(* sessionsByLevel[lvl]                                                     *)
LevelList(lv) == {t \in library : t.level = lv}
(* ... .filter((t) => categoryBias === "Any" ? true : t.category === categoryBias) *)
BiasList(lv, b) == {t \in LevelList(lv) : b = AnyCategory \/ t.category = b}

(* recents[level].slice(0, 6) of App.tsx and part_003, recent.slice(-6) of  *)
(* part_004 and part_005, as sets of ids                                    *)
FirstIds(r, k) == {r[i] : i \in 1..Min(k, Len(r))}
LastIds(r, k) == {r[i] : i \in Max(1, Len(r) - k + 1)..Len(r)}

(* The comparator of the path order: App.tsx 730-735 and part_003 768-773  *)
(* compare the numbers of the ids when both ids carry one and the titles   *)
(* otherwise; sortSessionsForPath of part_004 452-454 and part_005 358-361 *)
(* compares the titles.  Titles are ranks, localeCompare their difference. *)
pathCompare(a, b) ==
  IF variant \in SessionVariants /\ a.number # NoNumber /\ b.number # NoNumber
  THEN a.number - b.number
  ELSE a.title - b.title

(* Array.prototype.sort is stable: elements that compare equal keep their   *)
(* order in the array.                                                      *)
InOrder(a, b) == pathCompare(a, b) < 0 \/ (pathCompare(a, b) = 0 /\ a.pos < b.pos)

(* The comparator reads one key over the whole list, so it is a consistent  *)
(* comparator and the sorted array is determined                            *)
OneKey(S) ==
  \/ variant \in HookVariants
  \/ \A t \in S : t.number # NoNumber
  \/ \A t \in S : t.number = NoNumber
RECURSIVE Sorted(_)
Sorted(S) ==
  IF S = {} THEN <<>>
  ELSE LET x == CHOOSE x \in S : \A y \in S \ {x} : InOrder(x, y)
       IN  <<x>> \o Sorted(S \ {x})
(* With a comparator that is not consistent the order is implementation-    *)
(* defined: any arrangement in which every element is in order with the     *)
(* next one (what an insertion or a merge sort leaves).                     *)
Arrangements(S) ==
  {q \in [1..Cardinality(S) -> S] :
     /\ \A i, j \in 1..Cardinality(S) : q[i] = q[j] => i = j
     /\ \A i \in 1..(Cardinality(S) - 1) : InOrder(q[i], q[i + 1])}
(* [...list].sort(comparator): the arrays the sort can return *)
sort(S) == IF OneKey(S) THEN {Sorted(S)} ELSE Arrangements(S)

(* sorted.find((t) => t in wanted), as a set: {} is undefined *)
find(sorted, wanted) ==
  LET hits == {i \in 1..Len(sorted) : sorted[i] \in wanted}
  IN  IF hits = {} THEN {} ELSE {sorted[CHOOSE i \in hits : \A j \in hits : i <= j]}

(* The selection functions return the set of the results Math.random can    *)
(* produce; the empty set stands for null.                                  *)
(* A variant of pickRandomTemplate below that does not exclude the recent ids *)
pickRandomTemplate_NoAvoid(lv, b) == BiasList(lv, b)
(* pickRandomTemplate, App.tsx 741-753 *)
pickRandomTemplate(lv, b) ==
  LET list == BiasList(lv, b)
      avoid == FirstIds(recents[lv], AvoidWindow)
      pool == {t \in list : t.id \notin avoid}
  IN  IF list = {} THEN {} ELSE IF pool # {} THEN pool ELSE list

(* pickPathTemplate, App.tsx 717-739 *)
pickPathTemplate(lv, b) ==
  LET list == BiasList(lv, b)
      uncompleted == {t \in list : completed[t.id] = 0}
  IN  IF list = {} THEN {}
      ELSE UNION {IF find(sorted, uncompleted) # {} THEN find(sorted, uncompleted)
                                                      ELSE {sorted[1]} : sorted \in sort(list)}

(* startPerfectHour, App.tsx 802-811 *)
startPerfectHour ==
  \E t \in (IF mode = "path" THEN pickPathTemplate(level, bias)
                             ELSE pickRandomTemplate(level, bias)) :
    startSessionFromTemplate(t)

(* pickRandom, part_003 806-814 *)
pickRandom(lv) ==
  LET list == LevelList(lv)
      avoid == FirstIds(recents[lv], AvoidWindow)
      pool == {t \in list : t.id \notin avoid}
  IN  IF list = {} THEN {} ELSE IF pool # {} THEN pool ELSE list

(* pickNextInPath, part_003 816-820 *)
pickNextInPath(lv) ==
  LET uncompleted == {t \in LevelList(lv) : ~isCompleted(t.id)}
  IN  UNION {find(list, uncompleted) : list \in sort(LevelList(lv))}

(* startFromHome, part_003 837-840 *)
startFromHome ==
  \E t \in (IF mode = "path" /\ pickNextInPath(level) # {} THEN pickNextInPath(level)
                                                           ELSE pickRandom(level)) :
    startTemplate(t)

(* pickRandomWithVariety, part_004 456-462 and part_005 363-370 *)
pickRandomWithVariety(list, recent, maxRecent) ==
  LET recentSet == LastIds(recent, maxRecent)
      candidates == {t \in list : t.id \notin recentSet}
  IN  IF list = {} THEN {} ELSE IF candidates # {} THEN candidates ELSE list

(* computeNextSessionForLevel, part_004 824-828; inline in part_005 814-816 *)
computeNextSessionForLevel(list) ==
  LET uncompleted == {t \in list : completed[t.id] = 0}
  IN  IF list = {} THEN {}
      ELSE UNION {IF find(sorted, uncompleted) # {} THEN find(sorted, uncompleted)
                                                      ELSE {sorted[1]} : sorted \in sort(list)}

(* [...prev, chosen.id].slice(-12) *)
appendRecent(r, lv, id) ==
  LET all == Append(r[lv], id)
  IN  [r EXCEPT ![lv] = SubSeq(all, Max(1, Len(all) - 12 + 1), Len(all))]

(* chooseAndStart, part_004 1069-1088 *)
chooseAndStart_P4 ==
  IF mode = "path"
  THEN \E next \in computeNextSessionForLevel(LevelList(level)) :
         startSession_P4(next) /\ recents' = recents
  ELSE \E chosen \in pickRandomWithVariety(LevelList(level), recents[level], AvoidWindow) :
         startSession_P4(chosen) /\ recents' = appendRecent(recents, level, chosen.id)

(* chooseAndStart, part_005 810-829 *)
chooseAndStart_P5 ==
  IF mode = "path"
  THEN \E next \in computeNextSessionForLevel(LevelList(level)) :
         startSession_P5(next) /\ recents' = recents
  ELSE \E chosen \in pickRandomWithVariety(LevelList(level), recents[level], AvoidWindow) :
         startSession_P5(chosen) /\ recents' = appendRecent(recents, level, chosen.id)

(* The Level and Mode menus of the header, App.tsx 863-877, and the        *)
(* category preference of the home screen, App.tsx 997-999                  *)
setPreferredLevel_App(lv) ==
  /\ variant = "App"
  /\ level' = lv
  /\ AppRender(session, screen, timers, timeTimer)
  /\ UNCHANGED <<variant, hookVars, totalTime, ticks, zeroed, endedBy, sinceTick>>
  /\ UNCHANGED <<catalogVars, shellVars, storeVars, recents, mode, bias>>
setHomeMode_App(m) ==
  /\ variant = "App"
  /\ mode' = m
  /\ AppRender(session, screen, timers, timeTimer)
  /\ UNCHANGED <<variant, hookVars, totalTime, ticks, zeroed, endedBy, sinceTick>>
  /\ UNCHANGED <<catalogVars, shellVars, storeVars, recents, level, bias>>
setCategoryBias(b) ==
  /\ variant = "App"
  /\ screen = "home"
  /\ bias' = b
  /\ AppRender(session, screen, timers, timeTimer)
  /\ UNCHANGED <<variant, hookVars, totalTime, ticks, zeroed, endedBy, sinceTick>>
  /\ UNCHANGED <<catalogVars, shellVars, storeVars, recents, level, mode>>

(* The Level and Mode menus of part_003 1013-1030, on the home screen only *)
setPreferredLevel_P3(lv) ==
  /\ variant = "P3"
  /\ screen = "home"
  /\ level' = lv
  /\ Render_P3(session, screen, timers)
  /\ UNCHANGED <<variant, hookVars, totalTime, ticks, zeroed, endedBy, sinceTick>>
  /\ UNCHANGED <<catalogVars, shellVars, storeVars, recents, mode, bias>>
setMode_P3(m) ==
  /\ variant = "P3"
  /\ screen = "home"
  /\ mode' = m
  /\ Render_P3(session, screen, timers)
  /\ UNCHANGED <<variant, hookVars, totalTime, ticks, zeroed, endedBy, sinceTick>>
  /\ UNCHANGED <<catalogVars, shellVars, storeVars, recents, level, bias>>

(* The level and mode menus of part_004 1866-1893 and part_005 1384-1411 *)
setLevel_Hook(lv) ==
  /\ variant \in HookVariants
  /\ level' = lv
  /\ HookRender(running, timers, tickRef, runElapsed, totalTime)
  /\ UNCHANGED <<variant, screen, active, phaseIdx, secondsLeft, phaseDone, sessionEnded,
                 sessionVars, stopPending, ticks, zeroed, endedBy, sinceTick>>
  /\ UNCHANGED <<catalogVars, shellVars, storeVars, recents, mode, bias>>
setMode_Hook(m) ==
  /\ variant \in HookVariants
  /\ mode' = m
  /\ HookRender(running, timers, tickRef, runElapsed, totalTime)
  /\ UNCHANGED <<variant, screen, active, phaseIdx, secondsLeft, phaseDone, sessionEnded,
                 sessionVars, stopPending, ticks, zeroed, endedBy, sinceTick>>
  /\ UNCHANGED <<catalogVars, shellVars, storeVars, recents, level, bias>>

(* ========================== the completion store ====================== *)

(* Date.now(): a reading of the clock, and the clock after the reading *)
now == stamp
clockAfterNow == Min(stamp + 1, MaxStamp)

(* onMarkComplete of the Runner, App.tsx 1103-1110; the button is rendered  *)
(* only under the banner "Session complete" (1293-1297).  tinyToast sets    *)
(* state, so App renders again in either branch.                            *)
(* A variant of the updater below that stores a fresh timestamp on every press *)
MarkUpdate_App_Overwrites(prev, id) == [prev EXCEPT ![id] = now]
MarkUpdate_App(prev, id) == IF prev[id] # 0 THEN prev ELSE [prev EXCEPT ![id] = now]
markComplete_App ==
  /\ variant = "App"
  /\ screen = "session" /\ session # NoSession /\ session.banner = "Session complete"
  /\ currentTemplate # NoTemplate
  /\ completed' = MarkUpdate_App(completed, currentTemplate.id)
  /\ stamp' = IF completed[currentTemplate.id] # 0 THEN stamp ELSE clockAfterNow
  /\ remarked' = (remarked \/ isCompleted(currentTemplate.id))
  /\ AppRender(session, screen, timers, timeTimer)
  /\ UNCHANGED <<variant, hookVars, totalTime, ticks, zeroed, endedBy, sinceTick>>
  /\ UNCHANGED <<catalogVars, shellVars, pickVars>>

(* toggleCompleteById, App.tsx 790-800, from the level checklist sheet of   *)
(* the home screen (1085-1094, 1818-1823)                                   *)
toggleCompleteById(id) ==
  /\ variant = "App"
  /\ screen = "home"
  /\ completed' = [completed EXCEPT ![id] = IF completed[id] # 0 THEN 0 ELSE now]
  /\ stamp' = IF completed[id] # 0 THEN stamp ELSE clockAfterNow
  /\ remarked' = remarked
  /\ AppRender(session, screen, timers, timeTimer)
  /\ UNCHANGED <<variant, hookVars, totalTime, ticks, zeroed, endedBy, sinceTick>>
  /\ UNCHANGED <<catalogVars, shellVars, pickVars>>

(* toggleCompletion, part_003 843-849 *)
toggleCompletion(prev, id, checked) == [prev EXCEPT ![id] = IF checked THEN now ELSE 0 - 1]

(* onMarkComplete of the Runner, part_003 1277-1280; the button is rendered *)
(* only when s.isFinished && !props.isCompleted (1536-1546)                 *)
markComplete_P3 ==
  /\ variant = "P3"
  /\ screen = "session" /\ session # NoSession
  /\ currentTemplate # NoTemplate
  /\ session.isFinished /\ ~isCompleted(session.templateId)
  /\ completed' = toggleCompletion(completed, session.templateId, TRUE)
  /\ stamp' = clockAfterNow
  /\ remarked' = remarked
  /\ Render_P3(session, screen, timers)
  /\ UNCHANGED <<variant, hookVars, totalTime, ticks, zeroed, endedBy, sinceTick>>
  /\ UNCHANGED <<catalogVars, shellVars, pickVars>>

(* The checkbox of a checklist row, part_003 1355-1358, on the home screen  *)
(* (1257-1270): onToggleComplete(t.id, e.target.checked), the box showing   *)
(* completions[t.id]?.completed                                             *)
toggleCompletion_P3(id) ==
  /\ variant = "P3"
  /\ screen = "home"
  /\ completed' = toggleCompletion(completed, id, ~isCompleted(id))
  /\ stamp' = IF isCompleted(id) THEN stamp ELSE clockAfterNow
  /\ remarked' = remarked
  /\ Render_P3(session, screen, timers)
  /\ UNCHANGED <<variant, hookVars, totalTime, ticks, zeroed, endedBy, sinceTick>>
  /\ UNCHANGED <<catalogVars, shellVars, pickVars>>

(* nextLevelWithContent, part_004 830-840: the first level with content     *)
(* from the current one on, then from the start                             *)
HasContent(lv) == \E t \in library : t.level = lv
nextLevelWithContent(current) ==
  IF \E lv \in Levels : lv >= current /\ HasContent(lv)
  THEN CHOOSE lv \in Levels : lv >= current /\ HasContent(lv)
                              /\ \A l2 \in Levels : (l2 >= current /\ HasContent(l2)) => lv <= l2
  ELSE IF \E lv \in Levels : lv < current /\ HasContent(lv)
       THEN CHOOSE lv \in Levels : lv < current /\ HasContent(lv)
                                   /\ \A l2 \in Levels : (l2 < current /\ HasContent(l2)) => lv <= l2
       ELSE current

(* markSessionComplete, part_004 1158-1178: the record, and in path mode    *)
(* the level after it [completed, level]                                    *)
markSessionComplete(a) ==
  LET after == [completed EXCEPT ![a.id] = 1]
      levelTotal == Cardinality({t \in library : t.level = a.level})
      levelDone == Cardinality({t \in library : t.level = a.level /\ after[t.id] # 0})
  IN  [completed |-> after,
       level |-> IF mode = "path" /\ levelTotal > 0 /\ levelDone >= levelTotal
                    /\ nextLevelWithContent(a.level) # a.level
                 THEN nextLevelWithContent(a.level)
                 ELSE level]

(* markCompleteAndReturn, part_004 1149-1155; the button replaces "Return   *)
(* home" on the completion card while the session is not marked (1730-1737) *)
markCompleteAndReturn ==
  /\ variant = "P4"
  /\ sessionEnded /\ active # NoTemplate /\ ~isCompleted(active.id)
  /\ completed' = markSessionComplete(active).completed
  /\ level' = markSessionComplete(active).level
  /\ stamp' = stamp /\ remarked' = remarked
  /\ returnHome

(* toggleComplete, part_004 1180-1187 and part_005 871-878, from the level  *)
(* sheet of the home screen                                                 *)
toggleComplete(id) ==
  /\ variant \in HookVariants
  /\ screen = "home"
  /\ completed' = [completed EXCEPT ![id] = IF completed[id] # 0 THEN 0 ELSE 1]
  /\ HookRender(running, timers, tickRef, runElapsed, totalTime)
  /\ UNCHANGED <<variant, screen, active, phaseIdx, secondsLeft, phaseDone, sessionEnded,
                 sessionVars, stopPending, ticks, zeroed, endedBy, sinceTick>>
  /\ UNCHANGED <<catalogVars, shellVars, stamp, remarked, pickVars>>

(* markSessionComplete, part_005 861-869; the button is rendered whenever   *)
(* sessionEnded (1290-1292)                                                 *)
markSessionComplete_P5 ==
  /\ variant = "P5"
  /\ screen = "session" /\ active # NoTemplate /\ sessionEnded
  /\ completed' = [completed EXCEPT ![active.id] = 1]
  /\ HookRender(running, timers, tickRef, runElapsed, totalTime)
  /\ UNCHANGED <<variant, screen, active, phaseIdx, secondsLeft, phaseDone, sessionEnded,
                 sessionVars, stopPending, ticks, zeroed, endedBy, sinceTick>>
  /\ remarked' = (remarked \/ isCompleted(active.id))
  /\ UNCHANGED <<catalogVars, shellVars, stamp, pickVars>>

(* --------------------------- specification ----------------------------- *)
NoTexts == libraryText = <<>> /\ clipboard = <<>> /\ importPaste = <<>> /\ imported = <<>> /\ sessions = <<>>
(* makeDefaultProgress, part_004 162-173: the progress of a new profile *)
makeDefaultProgress ==
  [level |-> DefaultLevel, mode |-> "path", recents |-> [lv \in Levels |-> <<>>],
   completed |-> [i \in {t.id : t \in library} |-> 0], totalTime |-> 0, userLibraryText |-> <<>>]
InitWith(Libraries, Markers, Modes) ==
  /\ variant \in DOMAIN Libraries
  /\ library \in Libraries[variant]
  /\ screen = "home"
  /\ session = NoSession
  /\ active = NoTemplate
  /\ phaseIdx = 0
  /\ secondsLeft = 0
  /\ running = FALSE
  /\ phaseDone = {}
  /\ sessionEnded = FALSE
  /\ tickRef = 0
  /\ timers = NoTimers
  /\ timeTimer = 0 - 1
  /\ stopPending = 0
  /\ runElapsed = 0 - 1
  /\ totalTime = 0
  /\ ticks = 0
  /\ zeroed = FALSE
  /\ endedBy = <<>>
  /\ sinceTick = Period
  /\ completed \in {[i \in {t.id : t \in library} |-> m] : m \in Markers}
  /\ stamp = 1
  /\ remarked = FALSE
  /\ recents = [lv \in Levels |-> <<>>]
  /\ level = DefaultLevel
  /\ mode \in Modes[variant]
  /\ bias = AnyCategory
  /\ showAdvanced = FALSE
  /\ activeId = 1
  /\ profiles = [p \in 1..MaxProfiles |-> IF p = 1 THEN InUse ELSE makeDefaultProgress]
  /\ startedIn = 0

(* One session in the library, of every shape of phase list *)
RunnerLibraries == [v \in Variants |-> {{t} : t \in Catalog(v)}]
DefaultModes == [v \in Variants |-> {DefaultMode(v)}]
Init == InitWith(RunnerLibraries, {0}, DefaultModes) /\ NoTexts

Next ==
  \/ \E t \in library : startSessionFromTemplate(t)
  \/ toggleRun_App
  \/ Tick_App
  \/ TimeTick_App
  \/ restartPhase_App
  \/ skipToNext_App
  \/ toggleHelper_App
  \/ goHome
  \/ \E t \in library : startTemplate(t)
  \/ toggleRun_P3
  \/ Tick_P3
  \/ skipToNext_P3
  \/ toggleHelper_P3
  \/ goHome_P3
  \/ \E s \in library : startFromSheet_P4(s)
  \/ \E s \in library : startFromSheet_P5(s)
  \/ skipToNext_Hook
  \/ toggleRun_Hook
  \/ Tick_Hook
  \/ Autopause_Hook
  \/ finishSession
  \/ exit_P5
  \/ Advance

Spec == Init /\ [][Next]_vars

(* Timer-driven behaviour: time passes, and a due interval or a queued     *)
(* zero-delay timeout is eventually run by the browser.                    *)
FairSpec ==
  /\ Spec
  /\ WF_vars(Advance)
  /\ WF_vars(Tick_App) /\ WF_vars(TimeTick_App)
  /\ WF_vars(Tick_P3)
  /\ WF_vars(Tick_Hook) /\ WF_vars(Autopause_Hook)

(* The runner together with the completion store: a library of              *)
(* MaxStoreSessions one-phase sessions, the checklist of the home screen     *)
(* and the buttons of the finished session.                                  *)
StoreLibraries == [v \in Variants |-> {{Template(n, 1, 1, <<MaxMinutes>>) : n \in 1..MaxStoreSessions}}]
StoreInit == InitWith(StoreLibraries, {0}, DefaultModes) /\ NoTexts
StoreNext ==
  \/ Next
  \/ markComplete_App
  \/ \E t \in library : toggleCompleteById(t.id)
  \/ markComplete_P3
  \/ \E t \in library : toggleCompletion_P3(t.id)
  \/ markCompleteAndReturn
  \/ \E t \in library : toggleComplete(t.id)
  \/ markSessionComplete_P5
StoreSpec == StoreInit /\ [][StoreNext]_vars

(* The home screen and its selection: the Start button, the rows of the     *)
(* level sheet, the settings and the way back home, without the timers.     *)
(* The library is either one level of MaxPickSessions sessions, the first   *)
(* of them of a category of its own, or one session on each level; the      *)
(* stored completion map of the small library is loaded with no session or  *)
(* with every session marked.                                               *)
PickLibraries ==
  [v \in Variants |->
    {{Template(n, 1, IF n = 1 THEN 1 ELSE MaxCategories, <<MaxMinutes>>) : n \in 1..MaxPickSessions},
     {Template(lv, lv, 1, <<MaxMinutes>>) : lv \in Levels}}]
PickInit ==
  /\ InitWith(PickLibraries, {0, 1}, DefaultModes)
  /\ NoTexts
  /\ Cardinality(library) > AvoidWindow => \A t \in library : completed[t.id] = 0
PickNext ==
  \/ startPerfectHour
  \/ \E t \in library : startSessionFromTemplate(t)
  \/ goHome
  \/ \E lv \in Levels : setPreferredLevel_App(lv)
  \/ \E m \in {"random", "path"} : setHomeMode_App(m)
  \/ \E b \in {AnyCategory} \cup Categories : setCategoryBias(b)
  \/ startFromHome
  \/ \E t \in library : startTemplate(t)
  \/ goHome_P3
  \/ \E lv \in Levels : setPreferredLevel_P3(lv)
  \/ \E m \in {"random", "path"} : setMode_P3(m)
  \/ chooseAndStart_P4
  \/ chooseAndStart_P5
  \/ finishSession
  \/ exit_P5
  \/ \E lv \in Levels : setLevel_Hook(lv)
  \/ \E m \in {"random", "path"} : setMode_Hook(m)
PickSpec == PickInit /\ [][PickNext]_vars

(* The path through a level: the Start button, the checklist, Skip and      *)
(* "Mark complete" of one-phase sessions and the category preference, with  *)
(* the stored mode "path".  The library holds MaxPathSessions sessions of one level;    *)
(* the id of a session carries a number or none, two titles can be equal,   *)
(* and the first session is of a category of its own.                       *)
PathLibraries ==
  [v \in Variants |->
    {{Session(n, n, number[n], title[n], 1, IF n = 1 THEN 1 ELSE MaxCategories, <<MaxMinutes>>)
        : n \in 1..MaxPathSessions}
      : number \in [1..MaxPathSessions -> {NoNumber} \cup (1..MaxPathSessions)],
        title \in [1..MaxPathSessions -> 1..MaxPathSessions]}]
PathInit ==
  /\ InitWith(PathLibraries, {0}, [v \in Variants |-> {"path"}])
  /\ NoTexts
  /\ \A t \in library : /\ t.number \in {NoNumber, t.pos}
                         /\ t.title \in {t.pos, MaxPathSessions + 1 - t.pos}
PathNext ==
  \/ startPerfectHour
  \/ skipToNext_App
  \/ markComplete_App
  \/ goHome
  \/ \E t \in library : toggleCompleteById(t.id)
  \/ \E b \in {AnyCategory} \cup Categories : setCategoryBias(b)
  \/ startFromHome
  \/ skipToNext_P3
  \/ markComplete_P3
  \/ goHome_P3
  \/ \E t \in library : toggleCompletion_P3(t.id)
  \/ chooseAndStart_P4
  \/ chooseAndStart_P5
  \/ skipToNext_Hook
  \/ markCompleteAndReturn
  \/ markSessionComplete_P5
  \/ finishSession
  \/ exit_P5
  \/ \E t \in library : toggleComplete(t.id)
PathSpec == PathInit /\ [][PathNext]_vars

(* ------------------------------ the parser ----------------------------- *)
(* A text is a sequence of lines; a line is its key (the marker, the field  *)
(* name before the colon, "PHASE", or "Text" for any other line), the text  *)
(* after the key as a string of character codes, and the number written in  *)
(* it: Minutes: <n>, or the "(<n>m)" of a phase header; NaN when the line   *)
(* holds no number.                                                        *)
NaN == 0 - 1000
Line(key, val, num) == [key |-> key, val |-> val, num |-> num]
Least(S) == CHOOSE x \in S : \A y \in S : x <= y
Greatest(S) == CHOOSE x \in S : \A y \in S : x >= y
RECURSIVE Ascending(_)
Ascending(S) == IF S = {} THEN <<>> ELSE <<Least(S)>> \o Ascending(S \ {Least(S)})
KeyLines(ls, key) == {i \in 1..Len(ls) : ls[i].key = key}
firstVal(ls, key) == IF KeyLines(ls, key) = {} THEN <<>> ELSE ls[Least(KeyLines(ls, key))].val
lastVal(ls, key) == IF KeyLines(ls, key) = {} THEN <<>> ELSE ls[Greatest(KeyLines(ls, key))].val

(* Strings *)
toLowerCase(s) == [i \in 1..Len(s) |-> IF s[i] \in 65..90 THEN s[i] + 32 ELSE s[i]]
toUpperCase(s) == [i \in 1..Len(s) |-> IF s[i] \in 97..122 THEN s[i] - 32 ELSE s[i]]
includes(s, sub) == \E i \in 1..(Len(s) - Len(sub) + 1) : SubSeq(s, i, i + Len(sub) - 1) = sub
RECURSIVE join(_, _)
join(parts, sep) ==
  IF parts = <<>> THEN <<>>
  ELSE IF Len(parts) = 1 THEN parts[1] ELSE parts[1] \o sep \o join(Tail(parts), sep)
RECURSIVE flatten(_)
flatten(blocks) == IF blocks = <<>> THEN <<>> ELSE Head(blocks) \o flatten(Tail(blocks))
Digit(n) == <<48 + n>>
LevelName(lv) == <<65>> \o Digit(lv)
LevelNames == {LevelName(lv) : lv \in Levels}
FallbackLevelKey == LevelName(MaxLevels)
Untitled == <<85, 110, 116, 105, 116, 108, 101, 100, 32, 115, 101, 115, 115, 105, 111, 110>>
PhaseWord == <<80, 104, 97, 115, 101, 32>>
SessionWord == <<83, 101, 115, 115, 105, 111, 110>>
Bars == <<124, 124>>
Colons == <<58, 58>>

(* The 32-bit FNV-1a hash of stableId, stableHash and stableIdFrom, on the  *)
(* four bytes of h, lowest first: h ^= code; h = Math.imul(h, 16777619)     *)
FnvOffset == <<197, 157, 28, 129>>
FnvPrime == <<147, 1, 0, 1>>
RECURSIVE xor(_, _)
xor(a, b) == IF a = 0 THEN b ELSE IF b = 0 THEN a ELSE ((a + b) % 2) + 2 * xor(a \div 2, b \div 2)
imul(a, b) ==
  LET t1 == a[1] * b[1]
      t2 == a[1] * b[2] + a[2] * b[1] + t1 \div 256
      t3 == a[1] * b[3] + a[2] * b[2] + a[3] * b[1] + t2 \div 256
      t4 == a[1] * b[4] + a[2] * b[3] + a[3] * b[2] + a[4] * b[1] + t3 \div 256
  IN  <<t1 % 256, t2 % 256, t3 % 256, t4 % 256>>
RECURSIVE fnv(_, _)
fnv(s, n) ==
  IF n = 0 THEN FnvOffset
  ELSE LET h == fnv(s, n - 1)
       IN  IF Len(h) # 4 THEN h
           ELSE imul(<<xor(h[1], s[n]), h[2], h[3], h[4]>>, FnvPrime)
stableHash(input) == fnv(input, Len(input))

(* Block extraction.  extractBlocks is the scan of part_003, part_004 and   *)
(* part_005: ( collecting, buf, blocks ) over the lines.                    *)
RECURSIVE scan(_, _, _, _, _)
scan(lines, i, collecting, buf, blocks) ==
  IF i > Len(lines) THEN blocks
  ELSE IF lines[i].key = "BEGIN" THEN scan(lines, i + 1, TRUE, <<lines[i]>>, blocks)
  ELSE IF lines[i].key = "END"
    THEN scan(lines, i + 1, FALSE, <<>>,
              IF collecting THEN Append(blocks, Append(buf, lines[i])) ELSE blocks)
  ELSE scan(lines, i + 1, collecting, IF collecting THEN Append(buf, lines[i]) ELSE buf, blocks)
RECURSIVE scan_NoReset(_, _, _, _, _)
scan_NoReset(lines, i, collecting, buf, blocks) ==
  IF i > Len(lines) THEN blocks
  ELSE IF lines[i].key = "BEGIN"
    THEN scan_NoReset(lines, i + 1, TRUE, IF collecting THEN Append(buf, lines[i]) ELSE <<lines[i]>>, blocks)
  ELSE IF lines[i].key = "END"
    THEN scan_NoReset(lines, i + 1, FALSE, <<>>,
                      IF collecting THEN Append(blocks, Append(buf, lines[i])) ELSE blocks)
  ELSE scan_NoReset(lines, i + 1, collecting, IF collecting THEN Append(buf, lines[i]) ELSE buf, blocks)
extractBlocks_NoReset(text) == scan_NoReset(text, 1, FALSE, <<>>, <<>>)
extractBlocks(text) == scan(text, 1, FALSE, <<>>, <<>>)

(* /BEGIN PERFECT HOUR SESSION[\s\S]*?END PERFECT HOUR SESSION/g: from the  *)
(* leftmost BEGIN at or after p to the first END after it, then on from     *)
(* there; each match as the pair of its first and last line                 *)
RECURSIVE matches(_, _)
matches(text, p) ==
  LET begins == {i \in p..Len(text) : text[i].key = "BEGIN"}
      ends == {j \in (Least(begins) + 1)..Len(text) : text[j].key = "END"}
  IN  IF begins = {} THEN <<>>
      ELSE IF ends = {} THEN <<>>
      ELSE <<<<Least(begins), Least(ends)>>>> \o matches(text, Least(ends) + 1)
(* extractSessionBlocks, App.tsx: the whole match *)
extractSessionBlocks(raw) ==
  [k \in 1..Len(matches(raw, 1)) |-> SubSeq(raw, matches(raw, 1)[k][1], matches(raw, 1)[k][2])]
(* splitSessions, parsePerfectHour.ts: the group between the markers *)
splitSessions(text) ==
  [k \in 1..Len(matches(text, 1)) |-> SubSeq(text, matches(text, 1)[k][1] + 1, matches(text, 1)[k][2] - 1)]

(* What a parser returns: NoTemplate (null), or the record of a session.    *)
(* An id is the text before the hash and the four bytes of the hash, <<>>   *)
(* when the id is the block's own ID field or a slug.                      *)
Id(pre, hash) == [pre |-> pre, hash |-> hash]
Parsed(i, s, t, l, c, p, r) ==
  [id |-> i, source |-> s, title |-> t, level |-> l, context |-> c, phases |-> p, raw |-> r]
IsParsed(t) == t # NoTemplate
IsContent(l) == l.key \notin {"BEGIN", "END"}
HasTitle(ph) == ph.name # <<>>
StartsOf(ls) == Ascending(KeyLines(ls, "PHASE"))
Segment(ls, st, n) ==
  SubSeq(ls, st[n] + 1, IF n < Len(st) THEN st[n + 1] - 1 ELSE Len(ls))
PhaseName(name, n) == IF name # <<>> THEN name ELSE PhaseWord \o Digit(n)
(* the last Minutes: line of a phase that parseInt reads, 0 when there is none *)
FiniteMinutes(seg) == {i \in KeyLines(seg, "Minutes") : seg[i].num # NaN}
SourceFile == <<102, 105, 108, 101>>
SourceImported == <<105, 109, 112, 111, 114, 116, 101, 100>>
SourceLibrary == <<108, 105, 98, 114, 97, 114, 121>>
SourceImport == <<105, 109, 112, 111, 114, 116>>
PhPrefix == <<112, 104, 95>>

(* The text of a line as the parsers read it, trimmed: a "Text" line is its *)
(* val; a field line is its key, its value and its number.                  *)
RECURSIVE trimStart(_)
trimStart(s) == IF s # <<>> /\ Head(s) = 32 THEN trimStart(Tail(s)) ELSE s
RECURSIVE trimEnd(_)
trimEnd(s) == IF s # <<>> /\ s[Len(s)] = 32 THEN trimEnd(SubSeq(s, 1, Len(s) - 1)) ELSE s
trim(s) == trimEnd(trimStart(s))
startsWith(s, pre) == Len(s) >= Len(pre) /\ SubSeq(s, 1, Len(pre)) = pre
(* s.replace(/^\*\s*/, "") with m the star, s.replace(/^\-\s*/, "") with m the dash *)
stripMarker(s, m) == IF startsWith(s, <<m>>) THEN trimStart(Tail(s)) ELSE s
KeyText(key) ==
  CASE key = "HumanSteps" -> <<72, 117, 109, 97, 110, 32, 115, 116, 101, 112, 115, 58>>
    [] key = "Twists" -> <<84, 119, 105, 115, 116, 115, 58>>
    [] key = "AIHelper" -> <<65, 73, 32, 104, 101, 108, 112, 101, 114, 32, 115, 99, 114, 105, 112, 116, 58>>
    [] key = "Name" -> <<78, 97, 109, 101, 58>>
    [] key = "Minutes" -> <<77, 105, 110, 117, 116, 101, 115, 58>>
    [] key = "Title" -> <<84, 105, 116, 108, 101, 58>>
    [] key = "Level" -> <<76, 101, 118, 101, 108, 58>>
    [] key = "Context" -> <<67, 111, 110, 116, 101, 120, 116, 58>>
    [] key = "ID" -> <<73, 68, 58>>
    [] key = "PHASE" -> <<80, 72, 65, 83, 69>>
    [] OTHER -> <<>>
RECURSIVE Digits(_)
Digits(n) ==
  IF n < 0 THEN <<45>> \o Digits(0 - n)
  ELSE IF n < 10 THEN Digit(n) ELSE Digits(n \div 10) \o Digit(n % 10)
RawOf(l) ==
  IF l.key = "Text" THEN trim(l.val)
  ELSE trim(KeyText(l.key) \o (IF l.val = <<>> THEN <<>> ELSE <<32>> \o l.val)
                           \o (IF l.num = NaN THEN <<>> ELSE <<32>> \o Digits(l.num)))
(* bl.startsWith("*") ? bl.replace(/^\*\s*/, "").trim()                     *)
(*   : bl.startsWith("-") ? bl.replace(/^\-\s*/, "").trim() : bl            *)
(* (part_004 384-386 and 418-423, part_005 302-308)                         *)
bullet(bl) ==
  IF startsWith(bl, <<42>>) THEN trim(stripMarker(bl, 42))
  ELSE IF startsWith(bl, <<45>>) THEN trim(stripMarker(bl, 45))
  ELSE bl
NotEmpty(s) == s # <<>>

(* learnerSteps of a phase, App.tsx 462-479: the lines after "Human         *)
(* steps:" up to the helper script, the next phase or the twists, a leading *)
(* star removed, the empty ones left out; "Twists:" ends the phase (443)    *)
RECURSIVE learnerSteps_App(_, _, _, _)
learnerSteps_App(seg, i, reading, out) ==
  IF i > Len(seg) THEN out
  ELSE IF seg[i].key = "Twists" THEN out
  ELSE IF seg[i].key = "HumanSteps" THEN learnerSteps_App(seg, i + 1, TRUE, out)
  ELSE IF seg[i].key = "AIHelper" THEN learnerSteps_App(seg, i + 1, FALSE, out)
  ELSE IF reading /\ trim(stripMarker(RawOf(seg[i]), 42)) # <<>>
    THEN learnerSteps_App(seg, i + 1, TRUE, Append(out, trim(stripMarker(RawOf(seg[i]), 42))))
  ELSE learnerSteps_App(seg, i + 1, reading, out)

(* stepsBuf of a phase, part_003 401-424: while readingSteps only the lines *)
(* that start with a star are kept; finalizePhase (328) trims them and      *)
(* leaves out the empty ones                                                *)
RECURSIVE stepsBuf(_, _, _, _)
stepsBuf(seg, i, readingSteps, out) ==
  IF i > Len(seg) THEN out
  ELSE IF seg[i].key = "Twists" THEN out
  ELSE IF seg[i].key \in {"Name", "Minutes", "BEGIN", "END"} THEN stepsBuf(seg, i + 1, readingSteps, out)
  ELSE IF seg[i].key = "HumanSteps" THEN stepsBuf(seg, i + 1, TRUE, out)
  ELSE IF seg[i].key = "AIHelper" THEN stepsBuf(seg, i + 1, FALSE, out)
  ELSE IF readingSteps /\ startsWith(RawOf(seg[i]), <<42>>)
    THEN stepsBuf(seg, i + 1, TRUE, Append(out, stripMarker(RawOf(seg[i]), 42)))
  ELSE stepsBuf(seg, i + 1, readingSteps, out)
learnerSteps_P3(seg) ==
  SelectSeq([k \in 1..Len(stepsBuf(seg, 1, FALSE, <<>>)) |-> trim(stepsBuf(seg, 1, FALSE, <<>>)[k])], NotEmpty)

(* humanSteps of a phase, part_004 351-424; at: "outer" the loop over the   *)
(* phase, "steps" the loop under "Human steps:" (376-389), "ai" while       *)
(* capturingAi                                                              *)
RECURSIVE humanSteps_P4(_, _, _, _)
humanSteps_P4(seg, j, at, out) ==
  IF j > Len(seg) THEN out
  ELSE IF seg[j].key \in {"END", "Twists", "PHASE"} THEN out
  ELSE IF RawOf(seg[j]) = <<>> THEN humanSteps_P4(seg, j + 1, at, out)
  ELSE IF at = "steps"
    THEN IF seg[j].key = "AIHelper" THEN humanSteps_P4(seg, j, "outer", out)
         ELSE humanSteps_P4(seg, j + 1, "steps", Append(out, bullet(RawOf(seg[j]))))
  ELSE IF seg[j].key \in {"Name", "Minutes"} THEN humanSteps_P4(seg, j + 1, "outer", out)
  ELSE IF seg[j].key = "HumanSteps" /\ seg[j].val = <<>> THEN humanSteps_P4(seg, j + 1, "steps", out)
  ELSE IF seg[j].key = "AIHelper" THEN humanSteps_P4(seg, j + 1, "ai", out)
  ELSE IF at = "ai" THEN humanSteps_P4(seg, j + 1, "ai", out)
  ELSE humanSteps_P4(seg, j + 1, "outer", Append(out, bullet(RawOf(seg[j]))))

(* humanSteps of a phase, part_005 283-326: under "Human steps:" every line *)
(* up to the helper script, the next phase or the end of the block          *)
RECURSIVE humanSteps_P5(_, _, _, _)
humanSteps_P5(seg, i, at, out) ==
  IF i > Len(seg) THEN out
  ELSE IF seg[i].key \in {"END", "PHASE"} THEN out
  ELSE IF RawOf(seg[i]) = <<>> /\ at # "outer" THEN humanSteps_P5(seg, i + 1, at, out)
  ELSE IF at = "steps"
    THEN IF seg[i].key = "AIHelper" THEN humanSteps_P5(seg, i, "outer", out)
         ELSE humanSteps_P5(seg, i + 1, "steps", Append(out, bullet(RawOf(seg[i]))))
  ELSE IF at = "ai"
    THEN IF seg[i].key \in {"Twists", "Name", "Minutes"} \/ (seg[i].key = "HumanSteps" /\ seg[i].val = <<>>)
           THEN humanSteps_P5(seg, i, "outer", out)
         ELSE humanSteps_P5(seg, i + 1, "ai", out)
  ELSE IF seg[i].key = "HumanSteps" /\ seg[i].val = <<>> THEN humanSteps_P5(seg, i + 1, "steps", out)
  ELSE IF seg[i].key = "AIHelper" /\ startsWith(RawOf(seg[i]), KeyText("AIHelper"))
    THEN humanSteps_P5(seg, i + 1, "ai", out)
  ELSE humanSteps_P5(seg, i + 1, "outer", out)

(* ---- App.tsx ---- *)
tryExtractCEFR(levelText, fallback) ==
  LET hit == {lv \in Levels : includes(toUpperCase(levelText), LevelName(lv))}
  IN  IF hit = {} THEN fallback ELSE LevelName(Least(hit))
stableId(parts) == Id(PhPrefix, stableHash(toLowerCase(join(parts, Bars))))
(* minutes = Number.isFinite(n) ? n : 0 on every Minutes: line, the last one wins *)
minutesOf_App(seg) ==
  IF KeyLines(seg, "Minutes") = {} THEN 0
  ELSE IF seg[Greatest(KeyLines(seg, "Minutes"))].num = NaN THEN 0
  ELSE seg[Greatest(KeyLines(seg, "Minutes"))].num
parseOneSessionBlock(block, fallbackLevel, source) ==
  LET lines == SelectSeq(block, IsContent)
      starts == StartsOf(lines)
      top == IF starts = <<>> THEN lines ELSE SubSeq(lines, 1, starts[1] - 1)
      title == lastVal(top, "Title")
      context == lastVal(top, "Context")
      lv == tryExtractCEFR(lastVal(top, "Level"), fallbackLevel)
      explicitId == lastVal(top, "ID")
      phases == [k \in 1..Len(starts) |->
                  [name |-> PhaseName(lastVal(Segment(lines, starts, k), "Name"), k),
                   minutes |-> clampMinutes(minutesOf_App(Segment(lines, starts, k))),
                   steps |-> learnerSteps_App(Segment(lines, starts, k), 1, FALSE, <<>>)]]
  IN  IF title = <<>> \/ context = <<>> \/ phases = <<>> THEN NoTemplate
      ELSE Parsed(IF explicitId # <<>> THEN Id(toLowerCase(explicitId), <<>>)
                                       ELSE stableId(<<source, lv, title, context>>),
                  source, title, lv, context, phases, <<>>)
parsePerfectHourText(raw, fallbackLevel, source) ==
  SelectSeq([k \in 1..Len(extractSessionBlocks(raw)) |->
              parseOneSessionBlock(extractSessionBlocks(raw)[k], fallbackLevel, source)], IsParsed)

(* ---- part_003 ---- *)
normalizeId(id) == Id(toLowerCase(id.pre), id.hash)
extractLevel(s) ==
  LET hits == {i \in 1..(Len(s) - 1) : toUpperCase(SubSeq(s, i, i + 1)) \in LevelNames}
  IN  IF hits = {} THEN <<>> ELSE toUpperCase(SubSeq(s, Least(hits), Least(hits) + 1))
parseMinutes(n) == IF n = NaN THEN 10 ELSE clamp(n, 1, 90)
phaseOf_P3(header, seg) ==
  [name |-> IF KeyLines(seg, "Name") # {} THEN lastVal(seg, "Name") ELSE header.val,
   minutes |-> clamp(IF KeyLines(seg, "Minutes") # {}
                       THEN parseMinutes(seg[Greatest(KeyLines(seg, "Minutes"))].num)
                     ELSE IF header.num # NaN THEN parseMinutes(header.num) ELSE 10, 1, 90),
   steps |-> learnerSteps_P3(seg)]
parseTemplateBlock(block, source) ==
  LET rawTitle == firstVal(block, "Title")
      rawLevel == firstVal(block, "Level")
      rawId == firstVal(block, "ID")
      context == firstVal(block, "Context")
      lv == extractLevel(IF rawLevel # <<>> THEN rawLevel
                         ELSE join([i \in 1..Len(block) |-> block[i].val], <<32>>))
      id == normalizeId(IF rawId # <<>> THEN Id(rawId, <<>>)
                        ELSE Id(lv \o <<45>>, stableHash(rawTitle \o Bars \o lv \o Bars \o context)))
      starts == StartsOf(block)
      phases == SelectSeq([k \in 1..Len(starts) |-> phaseOf_P3(block[starts[k]], Segment(block, starts, k))],
                          HasTitle)
  IN  IF rawTitle = <<>> \/ lv = <<>> THEN NoTemplate
      ELSE IF phases = <<>> THEN NoTemplate
      ELSE Parsed(id, source, rawTitle, lv, context, phases, <<>>)
parseBlocks_P3(text, source) ==
  SelectSeq([k \in 1..Len(extractBlocks(text)) |-> parseTemplateBlock(extractBlocks(text)[k], source)],
            IsParsed)
parseImportedText(raw) == parseBlocks_P3(raw, SourceImport)

(* ---- part_004 and part_005 ---- *)
parseLevelKey(levelRaw) == extractLevel(levelRaw)
stableIdFrom(title, levelKey) ==
  Id(levelKey \o <<95>>, stableHash(toLowerCase(levelKey \o Colons \o title)))
FluencyWord == <<102, 108, 117, 101, 110, 99, 121>>
ModelWord == <<109, 111, 100, 101, 108>>
InputWord == <<105, 110, 112, 117, 116>>
SimulationWord == <<115, 105, 109, 117, 108, 97, 116, 105, 111, 110>>
OutputWord == <<111, 117, 116, 112, 117, 116>>
RecordWord == <<114, 101, 99, 111, 114, 100>>
inferPhaseMinutes(name, idx) ==
  CASE includes(toLowerCase(name), FluencyWord) -> 10
    [] includes(toLowerCase(name), ModelWord) -> 25
    [] includes(toLowerCase(name), InputWord) -> 25
    [] includes(toLowerCase(name), SimulationWord) \/ includes(toLowerCase(name), OutputWord) -> 15
    [] includes(toLowerCase(name), RecordWord) -> 10
    [] OTHER -> CASE idx = 0 -> 10 [] idx = 1 -> 25 [] idx = 2 -> 15 [] idx = 3 -> 10 [] OTHER -> 15
phaseOf_P4(header, seg, idx) ==
  LET name == IF KeyLines(seg, "Name") # {} THEN lastVal(seg, "Name") ELSE header.val
      minutes == IF FiniteMinutes(seg) # {} THEN seg[Greatest(FiniteMinutes(seg))].num
                 ELSE IF header.num # NaN THEN header.num ELSE 0
  IN  [name |-> PhaseName(name, idx + 1),
       minutes |-> IF minutes > 0 THEN minutes ELSE inferPhaseMinutes(name, idx),
       steps |-> humanSteps_P4(seg, 1, "outer", <<>>)]
phaseOf_P5(seg, idx) ==
  [name |-> PhaseName(lastVal(seg, "Name"), idx + 1),
   minutes |-> IF FiniteMinutes(seg) # {} THEN seg[Greatest(FiniteMinutes(seg))].num ELSE 0,
   steps |-> humanSteps_P5(seg, 1, "outer", <<>>)]
parseSessionBlock(block) ==
  LET idRaw == firstVal(block, "ID")
      title == IF firstVal(block, "Title") # <<>> THEN firstVal(block, "Title") ELSE Untitled
      levelKey == IF parseLevelKey(firstVal(block, "Level")) # <<>>
                    THEN parseLevelKey(firstVal(block, "Level")) ELSE FallbackLevelKey
      starts == StartsOf(block)
      phases == [k \in 1..Len(starts) |->
                  IF variant = "P4" THEN phaseOf_P4(block[starts[k]], Segment(block, starts, k), k - 1)
                                    ELSE phaseOf_P5(Segment(block, starts, k), k - 1)]
  IN  Parsed(IF idRaw # <<>> THEN Id(idRaw, <<>>) ELSE stableIdFrom(title, levelKey),
             <<>>, title, levelKey, firstVal(block, "Context"),
             IF phases # <<>> THEN phases ELSE <<[name |-> SessionWord, minutes |-> 60, steps |-> <<>>]>>,
             block)
parseBlocks_Hook(text) ==
  SelectSeq([k \in 1..Len(extractBlocks(text)) |-> parseSessionBlock(extractBlocks(text)[k])], IsParsed)

(* ---- parsePerfectHour.ts ---- *)
(* lower case, each run of other characters one "-", none at the ends *)
SlugChars == (97..122) \cup (48..57)
slugify(input) ==
  LET low == toLowerCase(input)
      keep == {i \in 1..Len(low) :
                 \/ low[i] \in SlugChars
                 \/ /\ i > 1
                    /\ low[i - 1] \in SlugChars
                    /\ \E j \in (i + 1)..Len(low) : low[j] \in SlugChars}
  IN  [k \in 1..Cardinality(keep) |->
         IF low[Ascending(keep)[k]] \in SlugChars THEN low[Ascending(keep)[k]] ELSE 45]
(* /^PHASE\s+(\d+)\s*:\s*(.+?)\s*\((\d+)\s*m\)\s*$/i *)
parseMinutesFromPhaseHeader(l) == l.key = "PHASE" /\ l.val # <<>> /\ l.num # NaN /\ l.num >= 0
parseKeyValue(l) == l.key \notin {"BEGIN", "END", "PHASE", "Text"} /\ l.val # <<>>
(* phase.steps, parsePerfectHour.ts 101-140: a "* " bullet without its       *)
(* marker, and every other line that is neither the helper script nor a     *)
(* key: value line                                                          *)
stepOf_Util(l) ==
  IF startsWith(RawOf(l), <<42, 32>>) THEN <<trim(SubSeq(RawOf(l), 3, Len(RawOf(l))))>>
  ELSE IF l.key = "AIHelper" \/ parseKeyValue(l) \/ RawOf(l) = <<>> THEN <<>>
  ELSE <<RawOf(l)>>
steps_Util(seg) == flatten([i \in 1..Len(seg) |-> stepOf_Util(seg[i])])
parseBlock_Util(block, blockIdx) ==
  LET starts == Ascending({i \in 1..Len(block) : parseMinutesFromPhaseHeader(block[i])})
      top == SelectSeq(IF starts = <<>> THEN block ELSE SubSeq(block, 1, starts[1] - 1), parseKeyValue)
      title == IF lastVal(top, "Title") # <<>> THEN lastVal(top, "Title")
               ELSE SessionWord \o <<32>> \o Digit(blockIdx + 1)
      phases == [k \in 1..Len(starts) |->
                  [name |-> block[starts[k]].val, minutes |-> block[starts[k]].num,
                   steps |-> steps_Util(SubSeq(block, starts[k] + 1,
                                               IF k < Len(starts) THEN starts[k + 1] - 1 ELSE Len(block)))]]
  IN  Parsed(Id(slugify(Digit(blockIdx + 1) \o <<45>> \o title), <<>>),
             <<>>, title, lastVal(top, "Level"), lastVal(top, "Context"), phases, block)
parsePerfectHourLibrary(text) ==
  [k \in 1..Len(splitSessions(text)) |-> parseBlock_Util(splitSessions(text)[k], k - 1)]

(* ---- the catalog ---- *)
(* new Map(): set(t.id, t) keeps the place of an id it already holds *)
mapSet(m, t) ==
  IF \E i \in 1..Len(m) : m[i].id = t.id
    THEN [i \in 1..Len(m) |-> IF m[i].id = t.id THEN t ELSE m[i]]
    ELSE Append(m, t)
RECURSIVE mapOf(_, _)
mapOf(m, list) == IF list = <<>> THEN m ELSE mapOf(mapSet(m, Head(list)), Tail(list))
(* de-dupe by id (first wins) *)
RECURSIVE dedupe(_, _)
dedupe(deduped, parsed) ==
  IF parsed = <<>> THEN deduped
  ELSE dedupe(IF \E i \in 1..Len(deduped) : deduped[i].id = Head(parsed).id
                THEN deduped ELSE Append(deduped, Head(parsed)),
              Tail(parsed))
(* The catalog once the library text has loaded: templates (App.tsx),       *)
(* allTemplates (part_003), sessions (part_004, part_005)                   *)
templates(file, imp) == file \o imp
allTemplates(libraryTemplates, imports) == mapOf(mapOf(<<>>, libraryTemplates), imports)
parseEffect_P4(lib, userLibraryText) ==
  dedupe(<<>>, parseBlocks_Hook(lib) \o parseBlocks_Hook(userLibraryText))
parseEffect_P5(lib) == parseBlocks_Hook(lib)
Loaded(lib, imp) ==
  CASE variant = "App" -> templates(parsePerfectHourText(lib, LevelName(level), SourceFile), imp)
    [] variant = "P3" -> allTemplates(parseBlocks_P3(lib, SourceLibrary), imp)
    [] variant = "P4" -> parseEffect_P4(lib, imp)
    [] variant = "P5" -> parseEffect_P5(lib)
    [] OTHER -> <<>>

runVars == <<variant, screen, session, active, phaseIdx, secondsLeft, running, phaseDone,
             sessionEnded, tickRef, timers, timeTimer, stopPending, runElapsed, totalTime,
             ticks, zeroed, endedBy, sinceTick>>
importFrame == <<runVars, library, libraryText, clipboard, storeVars, pickVars, shellVars>>

(* The page is loaded again: the library text is parsed, the stored imports *)
(* are merged in (part_005 keeps its imports in memory only)                *)
reload ==
  /\ variant \in Variants
  /\ screen = "home"
  /\ sessions' = Loaded(libraryText, imported)
  /\ importPaste' = <<>>
  /\ UNCHANGED <<importFrame, imported>>

(* The text of the clipboard is pasted into the import box *)
paste ==
  /\ screen = "home"
  /\ importPaste' = clipboard
  /\ UNCHANGED <<importFrame, imported, sessions>>

(* importFromTextAndSave, App.tsx 1517-1529, with onImport, 1077 *)
doImport_App ==
  /\ variant = "App"
  /\ screen = "home"
  /\ LET parsed == parsePerfectHourText(importPaste, LevelName(level), SourceImported)
         file == SubSeq(sessions, 1, Len(sessions) - Len(imported))
     IN  /\ parsed # <<>>
         /\ Len(parsed) + Len(imported) <= MaxImported
         /\ imported' = parsed \o imported
         /\ sessions' = templates(file, parsed \o imported)
  /\ importPaste' = <<>>
  /\ UNCHANGED importFrame

(* doImport, part_003 952-969 *)
doImport_P3 ==
  /\ variant = "P3"
  /\ screen = "home"
  /\ LET incoming == parseImportedText(importPaste)
     IN  /\ incoming # <<>>
         /\ imported' = mapOf(mapOf(<<>>, imported), incoming)
         /\ sessions' = allTemplates(parseBlocks_P3(libraryText, SourceLibrary),
                                     mapOf(mapOf(<<>>, imported), incoming))
  /\ importPaste' = <<>>
  /\ UNCHANGED importFrame

(* doImport, part_004 1189-1210, and the parse effect, 935-960 *)
doImport_P4 ==
  /\ variant = "P4"
  /\ screen = "home"
  /\ LET blocks == extractBlocks(importPaste)
     IN  /\ blocks # <<>>
         /\ Len(extractBlocks(imported)) + Len(blocks) <= MaxImported
         /\ imported' = imported \o flatten(blocks)
         /\ sessions' = parseEffect_P4(libraryText, imported \o flatten(blocks))
  /\ importPaste' = <<>>
  /\ UNCHANGED importFrame

(* doImport, part_005 880-905 *)
doImport_P5 ==
  /\ variant = "P5"
  /\ screen = "home"
  /\ LET found == parseBlocks_Hook(importPaste)
         parsed == [k \in 1..Len(found) |-> [found[k] EXCEPT !.level = LevelName(level)]]
     IN  /\ parsed # <<>>
         /\ Len(sessions) + Len(parsed) <= MaxImported + Len(parseEffect_P5(libraryText))
         /\ sessions' = sessions \o parsed
  /\ importPaste' = <<>>
  /\ UNCHANGED <<importFrame, imported>>

(* parsePerfectHourLibrary, parsePerfectHour.ts 63-192, on the text at hand *)
parseLibrary_Util ==
  /\ variant = "Util"
  /\ sessions' = parsePerfectHourLibrary(importPaste)
  /\ UNCHANGED <<importFrame, imported, importPaste>>

ImportNext ==
  \/ reload
  \/ paste
  \/ doImport_App
  \/ doImport_P3
  \/ doImport_P4
  \/ doImport_P5
  \/ parseLibrary_Util

(* ---- the texts ---- *)
BeginLine == Line("BEGIN", <<>>, NaN)
EndLine == Line("END", <<>>, NaN)
TitleA == <<97>>
ContextOne == <<109, 122, 98, 108>>
ContextTwo == <<111, 97, 117, 109, 97>>
ContextThree == toUpperCase(ContextOne)
MinuteTexts == {NaN, 0 - 5, 0, 10, 120}
HeaderMinutes == {0, 10, 120}
IdOptions == {<<>>, <<Line("ID", <<88>>, NaN)>>}
TitleOptions == {<<>>, <<Line("Title", <<>>, NaN)>>, <<Line("Title", TitleA, NaN)>>}
LevelOptions == {<<>>, <<Line("Level", LevelName(1), NaN)>>}
ContextLines == {<<Line("Context", c, NaN)>> : c \in {ContextOne, ContextTwo, ContextThree}}
PhaseOptions ==
  {<<>>, <<Line("PHASE", <<>>, NaN)>>}
    \cup {<<Line("PHASE", <<>>, NaN), Line("Name", <<112>>, NaN), Line("Minutes", <<>>, n)>> : n \in MinuteTexts}
    \cup {<<Line("PHASE", <<112>>, n)>> : n \in HeaderMinutes}
Block(id, title, lv, context, phase) ==
  <<BeginLine>> \o id \o title \o lv \o context \o phase \o <<EndLine>>
Blocks ==
  {Block(id, title, lv, context, phase) :
     id \in IdOptions, title \in TitleOptions, lv \in LevelOptions,
     context \in {<<>>} \cup ContextLines, phase \in PhaseOptions}
(* A block every parser accepts *)
RefBlock ==
  Block(<<>>, <<Line("Title", <<98>>, NaN)>>, <<Line("Level", LevelName(1), NaN)>>,
        <<Line("Context", ContextOne, NaN)>>, <<Line("PHASE", <<112>>, 10)>>)
(* One block; a block before or after the accepted one; a block twice; a    *)
(* block and the same block with another context                            *)
OtherContexts(b) ==
  {[i \in 1..Len(b) |-> IF b[i].key = "Context" THEN c[1] ELSE b[i]] : c \in ContextLines} \ {b}
PasteTexts ==
  UNION {{b, b \o RefBlock, RefBlock \o b, b \o b} \cup {b \o c : c \in OtherContexts(b)} : b \in Blocks}
LibraryTexts == {<<>>, RefBlock}

(* Lines around the markers: a title or a phase outside any block, a marker *)
(* without its partner                                                      *)
StrayTitle == Line("Title", <<120>>, NaN)
StrayPhase == Line("PHASE", <<120>>, 10)
Chunks == {<<BeginLine>>, <<EndLine>>, <<StrayTitle>>, <<StrayPhase>>, RefBlock}
ChunkTexts == UNION {{flatten(c) : c \in [1..n -> Chunks]} : n \in 0..MaxChunks}

ParserVariants == Variants \cup {"Util"}
ParseInitWith(Pastes, Libs) ==
  /\ InitWith([v \in ParserVariants |-> {{}}], {0}, [v \in ParserVariants |-> {DefaultMode(v)}])
  /\ libraryText \in Libs
  /\ clipboard \in Pastes
  /\ importPaste = clipboard
  /\ imported = <<>>
  /\ sessions = Loaded(libraryText, <<>>)
ParseInit == ParseInitWith(PasteTexts, LibraryTexts)
ParseSpec == ParseInit /\ [][ImportNext]_vars
ExtractInit == ParseInitWith(ChunkTexts, {<<>>})
ExtractSpec == ExtractInit /\ [][ImportNext]_vars

(* ------------------- the runner as the claims see it ------------------- *)
Active == screen = "session" /\ (IF variant \in SessionVariants THEN session # NoSession ELSE active # NoTemplate)
ActiveTemplate == IF variant \in SessionVariants THEN currentTemplate ELSE active
PhaseIndex == IF variant \in SessionVariants THEN (IF session = NoSession THEN 0 ELSE session.phaseIndex) ELSE phaseIdx
RemainingSeconds == IF variant \in SessionVariants THEN (IF session = NoSession THEN 0 ELSE session.remainingSeconds) ELSE secondsLeft
Running == IF variant \in SessionVariants THEN IsRunning(session) ELSE running
NumPhases == IF ActiveTemplate = NoTemplate THEN 0 ELSE Len(ActiveTemplate.phases)
PhaseMinutes == ActiveTemplate.phases[PhaseIndex + 1].minutes
SessionComplete == Active /\ Len(endedBy) = NumPhases

TickStep == Tick_App \/ Tick_P3 \/ Tick_Hook
SkipStep == skipToNext_App \/ skipToNext_P3 \/ skipToNext_Hook
ToggleStep == toggleRun_App \/ toggleRun_P3 \/ toggleRun_Hook
StartStep == \E t \in library : startSessionFromTemplate(t) \/ startTemplate(t) \/ startSession_P4(t) \/ startSession_P5(t)
TimerStep == TickStep \/ TimeTick_App \/ Autopause_Hook \/ Advance
SameRun == Active /\ Active' /\ ~StartStep

(* C1 as stated: within one run the phase index changes only by +1, and    *)
(* only through the tick that brings remainingSeconds to zero or through   *)
(* skipToNext.                                                             *)
C1_Original ==
  [][(SameRun /\ PhaseIndex' # PhaseIndex)
       => /\ PhaseIndex' = PhaseIndex + 1
          /\ (TickStep /\ RemainingSeconds <= 1) \/ SkipStep]_vars

(* C1 amended: within one run the phase index changes only by +1, and only *)
(* through (a) the tick that brings remainingSeconds to zero (App.tsx,     *)
(* part_003), (b) skipToNext, or (c) the Start control pressed while       *)
(* remainingSeconds is 0 (part_004, part_005, where the tick at zero only  *)
(* autopauses); and whenever the countdown is running at phase k, every    *)
(* phase before k ended at exactly zero or by an explicit skip.            *)
C1_PhaseOrder ==
  [][/\ (SameRun /\ PhaseIndex' # PhaseIndex)
          => /\ PhaseIndex' = PhaseIndex + 1
             /\ \/ TickStep /\ RemainingSeconds <= 1 /\ variant \in SessionVariants
                \/ SkipStep
                \/ toggleRun_Hook /\ secondsLeft = 0
     /\ (Active' /\ Running')
          => /\ Len(endedBy') >= PhaseIndex'
             /\ \A j \in 1..PhaseIndex' : endedBy'[j] \in {"zero", "skip"}]_vars

C1_Witness ==
  /\ Active /\ Running /\ PhaseIndex = 1 /\ endedBy = <<"zero">>
  /\ ActiveTemplate.phases[1].minutes = 1 /\ ticks > 0

(* The runner is stopped: it is not running, or (part_004, part_005) the   *)
(* setRunning(false) of the tick is queued ahead of any further tick.      *)
Stopped == ~Running \/ stopPending > 0
ZeroTick == TickStep /\ Running /\ RemainingSeconds <= 1

(* C2: autopause.  The tick that brings remainingSeconds to zero stops the *)
(* runner, and while it is stopped no timer-driven step decrements         *)
(* remainingSeconds or moves the phase index or sets it running again:     *)
(* only the Start control does.                                            *)
C2_Autopause ==
  [][/\ ZeroTick => Stopped'
     /\ (Stopped /\ TimerStep)
          => /\ Stopped'
             /\ RemainingSeconds' = RemainingSeconds
             /\ PhaseIndex' = PhaseIndex
     /\ (Active /\ Active' /\ ~Running /\ Running') => ToggleStep]_vars

C2_Witness ==
  /\ Active /\ ~Running /\ Installed(timers) = {}
  /\ \/ variant \in SessionVariants /\ session.banner = "Phase complete"
        /\ ActiveTemplate.phases[1].minutes = 1
     \/ variant \in HookVariants /\ zeroed /\ secondsLeft = 0 /\ ticks = SecondsPerMinute

(* C3: while the runner keeps running, the next tick is not postponed for  *)
(* ever: from every running state a tick is eventually applied or the      *)
(* runner stops running.                                                   *)
C3_TickNotPostponed == (Running /\ sinceTick > 0) ~> (sinceTick = 0 \/ ~Running)

(* C4: remainingSeconds is never negative in any reachable runner state. *)
C4_NeverNegative == Active => RemainingSeconds >= 0

(* C5 as stated: the (60*m)-th tick of a phase started with minutes = m    *)
(* moves the runner to the next phase, or to SessionComplete on the last   *)
(* phase.                                                                  *)
PhaseOpen == Active /\ ~zeroed /\ ~Recorded(PhaseIndex) /\ PhaseMinutes >= 1
C5_Original ==
  [][(PhaseOpen /\ TickStep /\ ticks + 1 = SecondsPerMinute * PhaseMinutes)
       => (PhaseIndex' = PhaseIndex + 1 \/ SessionComplete')]_vars

(* C5 amended: a phase loaded with minutes = m >= 1 has remainingSeconds = *)
(* 60*m - n > 0 and an unchanged phase index after n < 60*m ticks, and it  *)
(* is the (60*m)-th tick, and no earlier one, that ends its countdown: in  *)
(* App.tsx and part_003 that tick moves to the next phase (or to           *)
(* SessionComplete on the last phase); in part_004 and part_005 it leaves  *)
(* remainingSeconds = 0 on the same phase with the autopause queued, and   *)
(* the next Start press moves on.                                          *)
C5_ExactCountdown ==
  [][/\ (PhaseOpen /\ PhaseOpen' /\ PhaseIndex' = PhaseIndex /\ ~StartStep /\ ticks' >= ticks)
          => /\ ticks' < SecondsPerMinute * PhaseMinutes
             /\ RemainingSeconds' = SecondsPerMinute * PhaseMinutes - ticks'
             /\ RemainingSeconds' > 0
     /\ (PhaseOpen /\ TickStep)
          => IF ticks + 1 < SecondsPerMinute * PhaseMinutes
             THEN PhaseOpen' /\ PhaseIndex' = PhaseIndex /\ ticks' = ticks + 1
             ELSE /\ ticks + 1 = SecondsPerMinute * PhaseMinutes
                  /\ ~Running' \/ stopPending' > 0
                  /\ IF variant \in SessionVariants
                     THEN IF PhaseIndex + 1 < NumPhases
                          THEN PhaseIndex' = PhaseIndex + 1 /\ endedBy'[PhaseIndex + 1] = "zero"
                          ELSE SessionComplete' /\ RemainingSeconds' = 0
                     ELSE /\ PhaseIndex' = PhaseIndex /\ RemainingSeconds' = 0
                          /\ zeroed' /\ ~SessionComplete']_vars

C5_Witness == Active /\ zeroed /\ ticks = SecondsPerMinute /\ RemainingSeconds = 0 /\ ~Running

(* C6: once the last phase has ended the runner stays stopped: it is not   *)
(* running and neither the countdown interval nor the time-tracking        *)
(* interval is installed, until a new session is started.                  *)
C6_CompleteStaysStopped ==
  SessionComplete => (~Running /\ Installed(timers) = {} /\ timeTimer < 0 /\ runElapsed < 0)

(* C7: at most one countdown interval is installed, it is the one the ref  *)
(* holds, and two ticks are never applied within the same second.          *)
C7_SingleTimer ==
  [][/\ Cardinality(Installed(timers')) <= 1
     /\ Installed(timers') \subseteq {tickRef'}
     /\ (TickStep /\ sinceTick' = 0) => sinceTick >= Period]_vars

C7_Witness == Running /\ ticks > 1 /\ Cardinality(Installed(timers)) = 1 /\ tickRef \in Installed(timers)

(* C8: a timer callback left over from before a pause, skip, exit or start *)
(* changes nothing of the state that operation established: while the      *)
(* runner is not running no timer-driven step changes remainingSeconds or  *)
(* the phase index, and the autopause queued by a tick stops only the      *)
(* countdown of the phase that tick brought to zero.                       *)
C8_NoStaleTick ==
  [][/\ (TimerStep /\ ~Running)
          => (RemainingSeconds' = RemainingSeconds /\ PhaseIndex' = PhaseIndex /\ ~Running')
     /\ (Autopause_Hook /\ Running /\ ~zeroed) => Running']_vars

(* C9 as stated: start(session) enters PhaseRunning. *)
C9_Original == [][StartStep => Running']_vars

(* C9 amended: start(session) enters PhasePaused (not running, no interval *)
(* installed) at phase index 0 with remainingSeconds =                     *)
(* phases[0].minutes * 60, whatever state the runner was left in, with no  *)
(* completed phases carried over from the previous run.                    *)
NoPhaseDone ==
  CASE variant = "App" -> session.completedPhaseIds = <<>>
    [] variant = "P3" -> ~session.isFinished
    [] OTHER -> phaseDone = {} /\ ~sessionEnded
C9_StartPaused ==
  [][StartStep
       => /\ Active'
          /\ PhaseIndex' = 0
          /\ RemainingSeconds' = ActiveTemplate'.phases[1].minutes * SecondsPerMinute
          /\ ~Running'
          /\ Installed(timers') = {}
          /\ NoPhaseDone']_vars

C9_Witness ==
  /\ Active /\ PhaseIndex = 0 /\ ~Running /\ endedBy = <<>> /\ ticks = 0
  /\ RemainingSeconds = SecondsPerMinute /\ totalTime > 0

(* C10 as stated: the Start/Pause control never changes remainingSeconds   *)
(* or the phase index, also when remainingSeconds is 0.                    *)
C10_Original ==
  [][ToggleStep => (RemainingSeconds' = RemainingSeconds /\ PhaseIndex' = PhaseIndex)]_vars

(* C10 amended: the Start/Pause control flips running and leaves           *)
(* remainingSeconds and the phase index as they were in every state in     *)
(* which it is available, except that in part_004 and part_005 pressing it *)
(* while remainingSeconds is 0 marks the phase done and moves on instead   *)
(* (next phase loaded, or session ended), and in part_005 it does nothing  *)
(* once the session has ended.                                             *)
C10_ToggleFrame ==
  [][ToggleStep
       => IF variant \in HookVariants /\ sessionEnded THEN UNCHANGED vars
          ELSE IF variant \in HookVariants /\ secondsLeft = 0
          THEN /\ ~Running'
               /\ phaseIdx \in phaseDone'
               /\ \/ sessionEnded' /\ phaseIdx + 1 = NumPhases /\ PhaseIndex' = PhaseIndex
                  \/ ~sessionEnded' /\ PhaseIndex' = PhaseIndex + 1
                       /\ RemainingSeconds' = PhaseMinutes' * SecondsPerMinute
          ELSE /\ Running' = ~Running
               /\ RemainingSeconds' = RemainingSeconds
               /\ PhaseIndex' = PhaseIndex]_vars

C10_Witness ==
  /\ Active /\ ~Running /\ ~zeroed /\ ticks > 0
  /\ RemainingSeconds = SecondsPerMinute * PhaseMinutes - ticks /\ RemainingSeconds > 0

(* The snapshot's own mark of a finished session: the "Session complete"   *)
(* banner (App.tsx), isFinished (part_003), sessionEnded (part_004/005).   *)
CompleteFlag ==
  CASE variant = "App" -> session # NoSession /\ session.banner = "Session complete"
    [] variant = "P3" -> session # NoSession /\ session.isFinished
    [] OTHER -> sessionEnded

(* C11: skipToNext from a non-final phase moves at once to phase index + 1 *)
(* with remainingSeconds set to that phase's full duration, and from the   *)
(* final phase to the finished session, whatever the remaining time was    *)
(* and whether the runner was running or paused.                           *)
C11_SkipAdvances ==
  [][SkipStep
       => IF PhaseIndex + 1 < NumPhases
          THEN /\ PhaseIndex' = PhaseIndex + 1
               /\ RemainingSeconds' = PhaseMinutes' * SecondsPerMinute
               /\ ~CompleteFlag'
          ELSE /\ PhaseIndex' = PhaseIndex
               /\ CompleteFlag'
               /\ SessionComplete'
               /\ ~Running']_vars

C11_Witness ==
  /\ Active /\ PhaseIndex = 1 /\ endedBy = <<"skip">>
  /\ RemainingSeconds = SecondsPerMinute /\ sinceTick = 0 /\ totalTime > 0

(* Phase number j (1-based) of the active session is recorded as done:     *)
(* its id is in completedPhaseIds (App.tsx), its index is in phaseDone     *)
(* (part_004, part_005).  part_003 keeps no record per phase.              *)
PhaseRecorded(j) ==
  IF variant = "App"
  THEN \E i \in 1..Len(session.completedPhaseIds) : session.completedPhaseIds[i] = ActiveTemplate.phases[j].id
  ELSE (j - 1) \in phaseDone

(* C12: in the snapshots that record phases as done, every phase below the *)
(* current phase index is recorded as done, however it ended, and once the *)
(* session is finished every phase of it is recorded as done.              *)
C12_DonePhasesRecorded ==
  (Active /\ variant # "P3")
    => /\ \A j \in 1..PhaseIndex : PhaseRecorded(j)
       /\ (CompleteFlag \/ SessionComplete) => \A j \in 1..NumPhases : PhaseRecorded(j)

C12_Witness ==
  /\ Active /\ variant \in HookVariants /\ sessionEnded
  /\ endedBy = <<"zero", "skip">> /\ phaseDone = {0, 1}
  /\ active.phases[1].minutes = 1

(* The accumulator in model units: time.totalSeconds counts seconds        *)
(* (App.tsx, part_003), time.totalMs counts elapsed time (part_004/005).   *)
TotalUnits == IF variant \in SessionVariants THEN totalTime * Period ELSE totalTime

(* Running time that has passed and is not in the accumulator yet: the     *)
(* time since the counting interval was installed or last fired (App.tsx,  *)
(* part_003), nowMs() - runStartedAtRef.current (part_004, part_005).      *)
Unaccrued ==
  CASE variant = "App" -> IF timeTimer >= 0 THEN Period - timeTimer ELSE 0
    [] variant = "P3" -> IF tickRef \in Installed(timers) THEN Period - timers[tickRef] ELSE 0
    [] OTHER -> Max(runElapsed, 0)

(* The capped accumulator of the model has reached MaxTotal *)
Saturated ==
  IF variant \in SessionVariants THEN totalTime >= MaxTotal
  ELSE totalTime + Max(runElapsed, 0) >= MaxTotal

ExitStep == goHome \/ goHome_P3 \/ finishSession \/ exit_P5
StopStep == Active /\ Running /\ ~(Active' /\ Running')

(* C13: exit is accepted in every runner state and leads to Idle (no       *)
(* countdown, no interval), the total never decreases, and the running     *)
(* time that has passed up to the exit is in the total afterwards.         *)
C13_ExitKeepsTime ==
  /\ [](Active => ENABLED ExitStep)
  /\ [][ExitStep
          => /\ ~Active' /\ ~Running'
             /\ Installed(timers') = {} /\ timeTimer' < 0
             /\ totalTime' >= totalTime
             /\ ~Saturated => TotalUnits' = TotalUnits + Unaccrued]_vars

C15_ExactRunTime ==
  [][(StopStep /\ ~Saturated) => TotalUnits' = TotalUnits + Unaccrued]_vars

(* ------------------------------ C16 ------------------------------------ *)
CurrentId == IF variant \in SessionVariants THEN session.templateId ELSE active.id
MarkStep == markComplete_App \/ markComplete_P3 \/ markCompleteAndReturn \/ markSessionComplete_P5

(* C16: marking a session that is already complete leaves the completion   *)
(* store as it was (the same record for every id, the marker or timestamp  *)
(* of the session the one of its first marking) and leaves the total time  *)
(* as it was.                                                              *)
C16_MarkIdempotent ==
  [][(Active /\ isCompleted(CurrentId) /\ MarkStep)
       => (completed' = completed /\ totalTime' = totalTime)]_vars

(* "Mark complete" was pressed again on a finished session marked at the   *)
(* first reading of the clock, after the clock had moved on                *)
C16_Witness ==
  /\ Active /\ CompleteFlag
  /\ remarked
  /\ completed[CurrentId] = 1 /\ stamp = MaxStamp
  /\ totalTime > 0

(* ------------------------------ C17 ------------------------------------ *)
(* C17: the completion map changes only by "Mark complete" pressed while   *)
(* the runner shows its session as complete; nothing changes it on the     *)
(* home screen or while a phase is running or paused.                      *)
C17_OnlyMarkWhenComplete ==
  [][completed' # completed => (Active /\ CompleteFlag /\ MarkStep)]_vars

(* ------------------------- selection as the claims see it -------------- *)
(* The ids the random selection avoids: the AvoidWindow most recent entries *)
(* of the recency list of the target level                                  *)
RecentWindow ==
  IF variant \in SessionVariants THEN FirstIds(recents[level], AvoidWindow)
                                 ELSE LastIds(recents[level], AvoidWindow)
(* What random selection can return in this state, and what the Start      *)
(* button can select in the current mode; {} is null                       *)
RandomSelection ==
  CASE variant = "App" -> pickRandomTemplate(level, bias)
    [] variant = "P3" -> pickRandom(level)
    [] OTHER -> pickRandomWithVariety(LevelList(level), recents[level], AvoidWindow)
Selection ==
  CASE variant = "App" -> IF mode = "path" THEN pickPathTemplate(level, bias)
                                           ELSE pickRandomTemplate(level, bias)
    [] variant = "P3" -> IF mode = "path" /\ pickNextInPath(level) # {} THEN pickNextInPath(level)
                                                                        ELSE pickRandom(level)
    [] OTHER -> IF mode = "path" THEN computeNextSessionForLevel(LevelList(level))
                                 ELSE pickRandomWithVariety(LevelList(level), recents[level], AvoidWindow)
SelectStep == startPerfectHour \/ startFromHome \/ chooseAndStart_P4 \/ chooseAndStart_P5
(* The category preference is set and every session it admits is recent *)
BiasExhausted ==
  /\ variant = "App" /\ bias # AnyCategory
  /\ \A t \in BiasList(level, bias) : t.id \in RecentWindow

(* ------------------------------ C18 ------------------------------------ *)
(* C18 as stated: on a level of more than 6 sessions random selection      *)
(* never returns one of the 6 most recent ids of the level's recency list. *)
C18_Original ==
  Cardinality(LevelList(level)) > AvoidWindow
    => \A t \in RandomSelection : t.id \notin RecentWindow

(* C18: on a level of more than 6 sessions random selection never returns  *)
(* one of the 6 most recent ids of the level's recency list, unless a      *)
(* category preference is set and every session of that category on the    *)
(* level is among those 6.                                                 *)
C18_RandomAvoidsRecent ==
  (Cardinality(LevelList(level)) > AvoidWindow /\ ~BiasExhausted)
    => \A t \in RandomSelection : t.id \notin RecentWindow

(* Six sessions of a level of seven have been shown, no preference is set, *)
(* and random selection is left with the seventh                           *)
C18_Witness ==
  /\ screen = "home" /\ mode = "random" /\ bias = AnyCategory
  /\ Cardinality(LevelList(level)) = MaxPickSessions
  /\ Cardinality(RecentWindow) = AvoidWindow
  /\ Cardinality(RandomSelection) = 1

(* ------------------------------ C19 ------------------------------------ *)
(* C19: selection returns null exactly when the library has no session on  *)
(* the target level, and otherwise a session of that level, whatever the   *)
(* recency list, the completion map and the category preference are.       *)
C19_NullOnlyWhenEmpty ==
  /\ (Selection = {}) <=> (LevelList(level) = {})
  /\ Selection \subseteq LevelList(level)

(* ------------------------------ C20 ------------------------------------ *)
RecentBound == CASE variant = "App" -> 8 [] variant = "P3" -> 6 [] OTHER -> 12
MostRecent(r) == IF variant \in SessionVariants THEN r[1] ELSE r[Len(r)]
NoRepeat(r) == \A i, j \in 1..Len(r) : r[i] = r[j] => i = j

(* C20: a selection leaves the chosen id as the most recent entry of the   *)
(* recency list of its level and the lists of the other levels as they     *)
(* were; no list ever holds an id twice or grows past its bound.           *)
C20_RecencyList ==
  /\ [](\A lv \in Levels : NoRepeat(recents[lv]) /\ Len(recents[lv]) <= RecentBound)
  /\ [][SelectStep => /\ recents'[ActiveTemplate'.level] # <<>>
                      /\ MostRecent(recents'[ActiveTemplate'.level]) = ActiveTemplate'.id
                      /\ \A lv \in Levels \ {ActiveTemplate'.level} : recents'[lv] = recents[lv]]_vars

(* ----------------------- the path as the claims see it ----------------- *)
(* The sessions of the target level that are not marked complete, the      *)
(* orders the sort can leave the level in, and the head of the path: the   *)
(* first session of an order that is not complete, or the first session    *)
(* when all are                                                            *)
Uncompleted == {t \in LevelList(level) : ~isCompleted(t.id)}
PathOrders == sort(LevelList(level))
PathHead == UNION {IF find(sorted, Uncompleted) # {} THEN find(sorted, Uncompleted) ELSE {sorted[1]}
                     : sorted \in PathOrders}
PathStep == SelectStep /\ mode = "path"

(* ------------------------------ C21 ------------------------------------ *)
(* C21: in path mode the selection returns the first session of the level, *)
(* in path order, that is not marked complete, and the first session in    *)
(* path order when every session of the level is complete.                 *)
C21_PathSelection == [][PathStep => ActiveTemplate' \in PathHead]_vars

(* ------------------------------ C22 ------------------------------------ *)
(* C22: while a session of the level is not complete, a selection in path  *)
(* mode never returns a session that is marked complete.                   *)
C22_PathMonotone ==
  [][(PathStep /\ Uncompleted # {}) => ~isCompleted(ActiveTemplate'.id)]_vars

(* ------------------------------ C23 ------------------------------------ *)
Sign(n) == IF n < 0 THEN 0 - 1 ELSE IF n > 0 THEN 1 ELSE 0
Antisymmetric(S) == \A a, b \in S : Sign(pathCompare(a, b)) = 0 - Sign(pathCompare(b, a))
Transitive(S) ==
  \A a, b, c \in S : (pathCompare(a, b) <= 0 /\ pathCompare(b, c) <= 0) => pathCompare(a, c) <= 0

(* C23: the comparator of the path order is antisymmetric and transitive   *)
(* over the sessions of a level, with and without a number in the id, so   *)
(* the sort leaves the level in one order whatever order it was given in,  *)
(* sessions of equal key in catalog order.                                 *)
C23_ConsistentOrder ==
  /\ Antisymmetric(LevelList(level))
  /\ Transitive(LevelList(level))
  /\ Cardinality(PathOrders) = 1

(* ----------------------- the parser and the import ---------------------- *)
(* What the claims call a block: an END marker whose nearest marker before  *)
(* it is a BEGIN, with the lines from that BEGIN on.                        *)
IsMarker(l) == l.key \in {"BEGIN", "END"}
PairedEnds(text) ==
  {j \in 1..Len(text) :
     /\ text[j].key = "END"
     /\ \E i \in 1..(j - 1) : text[i].key = "BEGIN" /\ \A m \in (i + 1)..(j - 1) : ~IsMarker(text[m])}
BeginOf(text, j) == Greatest({i \in 1..(j - 1) : text[i].key = "BEGIN"})
ExpectedBlocks(text) ==
  [k \in 1..Cardinality(PairedEnds(text)) |->
     SubSeq(text, BeginOf(text, Ascending(PairedEnds(text))[k]), Ascending(PairedEnds(text))[k])]
InsideLines(text) == {m \in 1..Len(text) : \E j \in PairedEnds(text) : m \in BeginOf(text, j)..j}
OutsideLines(text) == (1..Len(text)) \ InsideLines(text)
ScanVariants == {"P3", "P4", "P5"}
RegexVariants == {"App", "Util"}
(* The title, context and phases of a session (an import of part_005 sets   *)
(* the level of what it parsed)                                             *)
Content(t) == <<t.title, t.context, t.phases>>
ScanParse(block) == IF variant = "P3" THEN parseTemplateBlock(block, SourceImport) ELSE parseSessionBlock(block)
ExpectedContent(text) ==
  {Content(ScanParse(ExpectedBlocks(text)[k])) :
     k \in {n \in 1..Len(ExpectedBlocks(text)) : IsParsed(ScanParse(ExpectedBlocks(text)[n]))}}

(* C24: the two-state scan returns, in input order, exactly one block for   *)
(* each END that follows a BEGIN with no other marker between them, and the *)
(* sessions of the catalog hold nothing but what those blocks hold: no line *)
(* before the first BEGIN, between an END and the next BEGIN, or after the  *)
(* last END reaches a block or a session.                                   *)
C24_ScanBlocks ==
  variant \in ScanVariants =>
    /\ extractBlocks(clipboard) = ExpectedBlocks(clipboard)
    /\ {Content(sessions[k]) : k \in 1..Len(sessions)} \subseteq ExpectedContent(clipboard)
C24_Witness ==
  /\ variant \in ScanVariants
  /\ Len(extractBlocks(clipboard)) = 2
  /\ 1 \in OutsideLines(clipboard)
  /\ Len(clipboard) \in OutsideLines(clipboard)
  /\ \E m \in OutsideLines(clipboard) : \E i, j \in PairedEnds(clipboard) : i < m /\ m < j
  /\ importPaste = <<>>
  /\ sessions # <<>>

(* The blocks of the regular-expression extractors, with their markers      *)
(* (splitSessions returns the group between the markers)                    *)
RegexBlocks(text) ==
  IF variant = "Util"
    THEN [k \in 1..Len(splitSessions(text)) |-> <<BeginLine>> \o splitSessions(text)[k] \o <<EndLine>>]
    ELSE extractSessionBlocks(text)
RegexContent(text) ==
  IF variant = "Util"
    THEN {Content(parseBlock_Util(SubSeq(ExpectedBlocks(text)[k], 2, Len(ExpectedBlocks(text)[k]) - 1), idx)) :
            k \in 1..Len(ExpectedBlocks(text)), idx \in 0..MaxChunks}
    ELSE {Content(parseOneSessionBlock(ExpectedBlocks(text)[k], LevelName(level), SourceImported)) :
            k \in {n \in 1..Len(ExpectedBlocks(text)) :
                     IsParsed(parseOneSessionBlock(ExpectedBlocks(text)[n], LevelName(level), SourceImported))}}

(* C25: the regular-expression extractors capture the blocks of the         *)
(* two-state scan for every input (a BEGIN with no END before the next      *)
(* BEGIN is dropped), and the sessions parsed hold nothing but what those   *)
(* blocks hold.                                                             *)
C25_RegexAsScan ==
  variant \in RegexVariants =>
    /\ RegexBlocks(clipboard) = extractBlocks(clipboard)
    /\ {Content(sessions[k]) : k \in 1..Len(sessions)} \subseteq RegexContent(clipboard)

(* The parser of each snapshot on a text and on one of its blocks           *)
BlocksOf(text) == IF variant \in RegexVariants THEN RegexBlocks(text) ELSE extractBlocks(text)
ParseList(text) ==
  CASE variant = "App" -> parsePerfectHourText(text, LevelName(level), SourceImported)
    [] variant = "P3" -> parseImportedText(text)
    [] variant \in HookVariants -> parseBlocks_Hook(text)
    [] OTHER -> parsePerfectHourLibrary(text)
ParseOne(block, k) ==
  CASE variant = "App" -> parseOneSessionBlock(block, LevelName(level), SourceImported)
    [] variant = "P3" -> parseTemplateBlock(block, SourceImport)
    [] variant \in HookVariants -> parseSessionBlock(block)
    [] OTHER -> parseBlock_Util(SubSeq(block, 2, Len(block) - 1), k - 1)
NoTitle(block) == \A i \in KeyLines(block, "Title") : block[i].val = <<>>
NoPhases(block) == KeyLines(block, "PHASE") = {}
Invalid(block) == NoTitle(block) \/ NoPhases(block)
Returned(text) == {k \in 1..Len(BlocksOf(text)) : IsParsed(ParseOne(BlocksOf(text)[k], k))}

(* C26: a block without a non-empty title, or without a phase, gives no     *)
(* session, and the parser's list holds the sessions of the other blocks of *)
(* the text (that of the reference block among them).                       *)
C26_Rejection ==
  /\ \A k \in 1..Len(BlocksOf(clipboard)) :
       /\ Invalid(BlocksOf(clipboard)[k]) => k \notin Returned(clipboard)
       /\ BlocksOf(clipboard)[k] = RefBlock => k \in Returned(clipboard)
  /\ Len(ParseList(clipboard)) = Cardinality(Returned(clipboard))
  /\ \A k \in 1..Len(sessions) : sessions[k].title # <<>> /\ sessions[k].phases # <<>>

SanePhases(t) == t.phases # <<>> /\ \A p \in 1..Len(t.phases) : t.phases[p].minutes \in 1..90

(* C27: every session the parser returns, and every session of the catalog, *)
(* has at least one phase, and each phase's minutes lie in 1..90, whatever  *)
(* the text says (no minutes, zero, negative, not a number, above 90).      *)
C27_PhaseMinutes ==
  /\ \A k \in 1..Len(ParseList(clipboard)) : SanePhases(ParseList(clipboard)[k])
  /\ \A k \in 1..Len(sessions) : SanePhases(sessions[k])

(* One block parsed as the k-th block of a text, under a level setting and  *)
(* a source tag (the arguments that do not come from the block)             *)
ParseIn(block, k, lv, source) ==
  CASE variant = "App" -> parseOneSessionBlock(block, LevelName(lv), source)
    [] variant = "P3" -> parseTemplateBlock(block, IF source = SourceFile THEN SourceLibrary ELSE SourceImport)
    [] variant \in HookVariants -> parseSessionBlock(block)
    [] OTHER -> parseBlock_Util(SubSeq(block, 2, Len(block) - 1), k - 1)
Fields(t) == IF IsParsed(t) THEN <<t.id, t.title, t.level, t.context, t.phases>> ELSE <<>>

(* C28: the id and the fields of a session are a function of the text of    *)
(* its block only: the block parsed at any position of a text, under any    *)
(* level setting and from either source, gives the id and fields of the     *)
(* block parsed alone, and two sessions of the catalog with the same fields *)
(* have the same id.                                                        *)
C28_IdentityFromText ==
  /\ \A k \in 1..Len(BlocksOf(clipboard)) : \A lv \in Levels : \A source \in {SourceFile, SourceImported} :
       Fields(ParseIn(BlocksOf(clipboard)[k], k, lv, source))
         = Fields(ParseIn(BlocksOf(clipboard)[k], 1, level, SourceImported))
  /\ \A i, j \in 1..Len(sessions) :
       Content(sessions[i]) = Content(sessions[j]) /\ sessions[i].level = sessions[j].level
         => sessions[i].id = sessions[j].id

NoExplicitId(block) == \A i \in KeyLines(block, "ID") : block[i].val = <<>>
SameButContext(s, t) == s.level = t.level /\ s.title = t.title /\ s.context # t.context

(* C29: two blocks without an ID field whose sessions have the same level   *)
(* and the same title but different context text get different ids, and so  *)
(* do two such sessions of the catalog.                                     *)
C29_ContextInId ==
  /\ \A i, j \in Returned(clipboard) :
       (/\ NoExplicitId(BlocksOf(clipboard)[i])
        /\ NoExplicitId(BlocksOf(clipboard)[j])
        /\ SameButContext(ParseOne(BlocksOf(clipboard)[i], i), ParseOne(BlocksOf(clipboard)[j], j)))
         => ParseOne(BlocksOf(clipboard)[i], i).id # ParseOne(BlocksOf(clipboard)[j], j).id
  /\ \A i, j \in 1..Len(sessions) :
       (sessions[i].id.hash # <<>> /\ sessions[j].id.hash # <<>> /\ SameButContext(sessions[i], sessions[j]))
         => sessions[i].id # sessions[j].id

ImportStep == doImport_App \/ doImport_P3 \/ doImport_P4 \/ doImport_P5
(* The text of the clipboard has been imported into the catalog at hand     *)
(* (part_005 keeps what it imported in the catalog only)                    *)
AlreadyImported == IF variant = "P5" THEN sessions # parseEffect_P5(libraryText) ELSE imported # <<>>
UniqueIds == \A i, j \in 1..Len(sessions) : sessions[i].id = sessions[j].id => i = j
LevelCount(lv) == Cardinality({k \in 1..Len(sessions) : sessions[k].level = LevelName(lv)})

(* C30: after any loads and imports the catalog holds no id twice, and an   *)
(* import of the text that was imported before leaves the catalog, and the  *)
(* number of sessions of each level, as they were.                          *)
C30_IdempotentImport ==
  /\ [](variant \in Variants => UniqueIds)
  /\ [][(ImportStep /\ AlreadyImported) =>
          /\ sessions' = sessions
          /\ \A lv \in Levels : LevelCount(lv)' = LevelCount(lv)]_vars

(* ------------------------- pause, helper, index ------------------------- *)
(* The runner has been paused in the middle of a phase: the countdown has   *)
(* ticked, is above zero and is stopped, and the session has not ended.     *)
(* Only the Start/Pause control pressed while running leads here.           *)
PausedMidPhase == Active /\ ~Running /\ ~CompleteFlag /\ ~zeroed /\ ticks > 0 /\ RemainingSeconds > 0
PauseStep == ToggleStep /\ Running

(* C34: pause issued again right after a pause from PhaseRunning is a       *)
(* no-op: the runner stays paused, remainingSeconds and the phase index     *)
(* stay as they were, no time is accrued and no tick is applied.            *)
C34_PauseIdempotent ==
  [][(ToggleStep /\ PausedMidPhase)
       => /\ ~Running'
          /\ RemainingSeconds' = RemainingSeconds
          /\ PhaseIndex' = PhaseIndex
          /\ totalTime' = totalTime
          /\ ticks' = ticks]_vars

(* The Show/Hide button of the Advanced card, which holds the helper card:  *)
(* part_004 1452 and 1767, part_005 1034 and 1322                           *)
toggleAdvanced ==
  /\ variant \in HookVariants
  /\ showAdvanced' = ~showAdvanced
  /\ UNCHANGED <<runVars, catalogVars, storeVars, pickVars, activeId, profiles, startedIn>>
HelperNext == Next \/ toggleAdvanced
HelperSpec == Init /\ [][HelperNext]_vars

(* The helper flag, and the helper card as it is rendered: App.tsx 1387     *)
(* (!s.isRunning && s.showHelper), part_003 1568, part_004 1768-1771 and    *)
(* part_005 1323-1327 (showAdvanced, and the guidance only when !running)   *)
HelperShown == IF variant \in SessionVariants THEN session # NoSession /\ session.showHelper ELSE showAdvanced
HelperVisible == Active /\ HelperShown /\ ~Running
ShowStep == (toggleHelper_App \/ toggleHelper_P3 \/ toggleAdvanced) /\ Active /\ ~Running

(* C38: the helper card is never visible while the countdown runs, and once *)
(* the countdown has been resumed the card becomes visible again only when  *)
(* the user shows it while paused.                                          *)
C38_HelperHidden ==
  /\ [](HelperVisible => ~Running)
  /\ [][(~HelperVisible /\ HelperVisible') => ShowStep]_vars

(* The runner over a library of two sessions, one of MaxPhases phases and   *)
(* one of a single phase, so that a short session can follow a long one.    *)
IndexLibraries ==
  [v \in Variants |->
    {{Template(1, 1, 1, p), Template(2, 1, 1, <<p[1]>>)} : p \in {q \in PhaseLists(v) : Len(q) = MaxPhases}}]
IndexInit == InitWith(IndexLibraries, {0}, DefaultModes) /\ NoTexts
IndexSpec == IndexInit /\ [][Next]_vars

(* C39: while a session is active the phase index is at least 0 and less    *)
(* than the number of phases of the active session, whatever sequence of    *)
(* tick, skip, restart and start led there.                                 *)
C39_PhaseIndexInRange == Active => (0 <= PhaseIndex /\ PhaseIndex < NumPhases)
(* the short session, started after a run of the long one, is skipped to its end *)
C39_Witness ==
  /\ Active /\ NumPhases = 1 /\ ActiveTemplate.pos = 2
  /\ CompleteFlag /\ endedBy = <<"skip">> /\ PhaseIndex = 0
  /\ recents[1] = <<2, 1>> /\ totalTime > 0

(* The path over several levels: the library holds two sessions of the      *)
(* first level and one of every other level, the stored mode is "path".     *)
LevelLibraries ==
  [v \in Variants |->
    {{Template(1, 1, 1, <<MaxMinutes>>)} \cup {Template(lv + 1, lv, 1, <<MaxMinutes>>) : lv \in Levels}}]
LevelInit == InitWith(LevelLibraries, {0}, [v \in Variants |-> {"path"}]) /\ NoTexts
LevelNext ==
  \/ PathNext
  \/ \E lv \in Levels : setLevel_Hook(lv)
LevelSpec == LevelInit /\ [][LevelNext]_vars

(* The next level after lv that has content, in A1..C2 order, wrapping *)
LevelAfter(lv, k) == ((lv - 1 + k) % MaxLevels) + 1
NextContentAfter(lv) ==
  LET k == CHOOSE k \in 1..MaxLevels :
             /\ HasContent(LevelAfter(lv, k))
             /\ \A j \in 1..(k - 1) : ~HasContent(LevelAfter(lv, j))
  IN  LevelAfter(lv, k)
CompletesLevel ==
  /\ markCompleteAndReturn /\ mode = "path" /\ level = active.level
  /\ \A t \in library : t.level = level => completed'[t.id] # 0
  /\ \E t \in library : t.level # level

(* C37: in path mode, when markSessionComplete completes the last open      *)
(* session of the current level and another level has sessions, the         *)
(* selected level becomes the next level after it, in order and wrapping,   *)
(* that has content.                                                        *)
C37_LevelAdvances == [][CompletesLevel => (level' = NextContentAfter(level) /\ level' # level)]_vars

(* The template of the session at hand leaves the catalog while the Runner  *)
(* is mounted (App.tsx: templates, 682-685; part_003: allTemplates,         *)
(* 756-761), and the render that follows.  Runner and SessionRunner return  *)
(* the "No active session." card before their hooks when the template prop  *)
(* is null (App.tsx 1139-1146, part_003 1393-1400): a render with fewer     *)
(* hooks than the one before is refused by React with an error, which       *)
(* unmounts the application (screen "crashed", every cleanup run); in the   *)
(* other outcome the card is rendered and the effects that depend on the    *)
(* catalog run again (App.tsx 824-837 ends the time tracking; part_003      *)
(* 851-902 installs the interval again while session.isRunning).            *)
templateLost ==
  /\ variant \in SessionVariants
  /\ screen = "session" /\ session # NoSession
  /\ currentTemplate # NoTemplate
  /\ library' = library \ {currentTemplate}
  /\ session' = session
  /\ \/ /\ screen' = "crashed"
        /\ timers' = clearInterval(timers, tickRef)
        /\ tickRef' = 0
     \/ /\ screen' = screen
        /\ timers' = RunnerTickEffect(timers, tickRef, session, screen).timers
        /\ tickRef' = RunnerTickEffect(timers, tickRef, session, screen).ref
  /\ timeTimer' = 0 - 1
  /\ UNCHANGED <<variant, hookVars, totalTime, ticks, zeroed, endedBy, sinceTick>>
  /\ UNCHANGED <<libraryText, clipboard, importPaste, imported, sessions>>
  /\ UNCHANGED <<storeVars, pickVars, shellVars>>
LossNext ==
  \/ Next
  \/ markComplete_App
  \/ markComplete_P3
  \/ templateLost
LossSpec == Init /\ [][LossNext]_vars

(* A session is at hand whose template is not in the catalog *)
Lost == variant \in SessionVariants /\ session # NoSession /\ currentTemplate = NoTemplate

(* C35: once the data of the session at hand is missing from the catalog,   *)
(* no error is raised, no session is active, the countdown is stopped, no   *)
(* tick changes the session or the time total, and no completion is         *)
(* recorded.                                                                *)
C35_LostSessionIdle ==
  /\ [](screen # "crashed")
  /\ [](Lost => ~Active /\ ~IsRunning(session))
  /\ [][(Lost /\ TickStep) => UNCHANGED <<session, totalTime>>]_vars
  /\ [][Lost => completed' = completed]_vars

(* The progress of the profile in use, as a record of the store *)
progress ==
  [level |-> level, mode |-> mode, recents |-> recents, completed |-> completed,
   totalTime |-> totalTime, userLibraryText |-> imported]
(* A row of the "Language profiles" sheet, part_004 1843-1847:              *)
(* setStore((st) => ({ ...st, activeId: p.id })); the header that opens the *)
(* sheet is rendered on every screen (1305, 1816).  activeProfile and       *)
(* progress follow the store (846-847) and the parse effect runs again for  *)
(* the library text of the profile (935-960).                               *)
switchProfile(p) ==
  /\ variant = "P4"
  /\ p \in 1..MaxProfiles /\ p # activeId
  /\ activeId' = p
  /\ profiles' = [profiles EXCEPT ![activeId] = progress, ![p] = InUse]
  /\ level' = profiles[p].level
  /\ mode' = profiles[p].mode
  /\ recents' = profiles[p].recents
  /\ completed' = profiles[p].completed
  /\ imported' = profiles[p].userLibraryText
  /\ sessions' = IF profiles[p].userLibraryText = imported THEN sessions
                 ELSE parseEffect_P4(libraryText, profiles[p].userLibraryText)
  /\ HookRender(running, timers, tickRef, runElapsed, profiles[p].totalTime)
  /\ UNCHANGED <<variant, screen, active, phaseIdx, secondsLeft, phaseDone, sessionEnded,
                 sessionVars, stopPending, ticks, zeroed, endedBy, sinceTick>>
  /\ UNCHANGED <<library, libraryText, clipboard, importPaste, stamp, remarked, bias,
                 showAdvanced, startedIn>>
ProfileNext ==
  \/ Next
  \/ markCompleteAndReturn
  \/ \E p \in 1..MaxProfiles : switchProfile(p)
ProfileSpec == Init /\ [][ProfileNext]_vars

(* The progress stored for profile p, in use or not *)
ProgressOf(p) == IF p = activeId THEN progress ELSE profiles[p]
EarnedIn(p) == <<ProgressOf(p).totalTime, ProgressOf(p).completed>>

(* C36: while a session is at hand, the hours and the completion record of  *)
(* every profile other than the one in which the session was started stay   *)
(* as they are, whatever profile is in use.                                 *)
C36_ProfileOfStart ==
  [][(variant = "P4" /\ Active) =>
       \A p \in 1..MaxProfiles : p # startedIn => EarnedIn(p)' = EarnedIn(p)]_vars

(* Texts with bullet lines: one block whose phase has "Human steps:", up to *)
(* MaxBullets bullet lines ("* a", "- b", " *c d " with blanks around it)   *)
(* and then nothing, the helper script, or the twists with a bullet         *)
StarStep == Line("Text", <<42, 32, 97>>, NaN)
DashStep == Line("Text", <<45, 32, 98>>, NaN)
PaddedStep == Line("Text", <<32, 42, 99, 32, 100, 32>>, NaN)
BulletLines == {StarStep, DashStep, PaddedStep}
StepTails ==
  {<<>>, <<Line("AIHelper", <<104>>, NaN)>>,
   <<Line("Twists", <<>>, NaN), Line("Text", <<42, 32, 116>>, NaN)>>}
StepBlock(bullets, tail) ==
  Block(<<>>, <<Line("Title", <<98>>, NaN)>>, <<Line("Level", LevelName(1), NaN)>>,
        <<Line("Context", ContextOne, NaN)>>,
        <<Line("PHASE", <<112>>, 10), Line("HumanSteps", <<>>, NaN)>> \o bullets \o tail)
StepTexts ==
  {StepBlock(bullets, tail) : bullets \in UNION {[1..n -> BulletLines] : n \in 0..MaxBullets}, tail \in StepTails}
StepsInit == ParseInitWith(StepTexts, {<<>>})
StepsSpec == StepsInit /\ [][ImportNext]_vars

(* The bullet lines under "Human steps:" and what the claim expects of them *)
BulletsUnder(block) ==
  LET h == Least(KeyLines(block, "HumanSteps"))
      run == {i \in (h + 1)..Len(block) : \A j \in (h + 1)..i : block[j].key = "Text"}
  IN  [k \in 1..Cardinality(run) |-> block[h + k].val]
StripBullet(v) == trim(Tail(trim(v)))
ExpectedSteps(block) == [k \in 1..Len(BulletsUnder(block)) |-> StripBullet(BulletsUnder(block)[k])]

(* C31: the learnerSteps of a phase are the bullet lines under "Human       *)
(* steps:", one entry per line and in their order, each without its leading *)
(* "*" or "-" and the whitespace around it; so for the parse of a block and *)
(* for every session of the catalog.                                        *)
C31_BulletFidelity ==
  /\ \A k \in 1..Len(BlocksOf(clipboard)) :
       IsParsed(ParseOne(BlocksOf(clipboard)[k], k)) =>
         /\ Len(ParseOne(BlocksOf(clipboard)[k], k).phases) = 1
         /\ ParseOne(BlocksOf(clipboard)[k], k).phases[1].steps = ExpectedSteps(BlocksOf(clipboard)[k])
  /\ \A k \in 1..Len(sessions) :
       sessions[k].phases[1].steps = ExpectedSteps(BlocksOf(clipboard)[1])

(* Texts with both phase forms: one block whose phase has the compact       *)
(* header "PHASE 1: p (Xm)" and, after it, no sub-field, "Name: q", a       *)
(* "Minutes:" line, or both                                                 *)
HeaderLines == {Line("PHASE", <<112>>, n) : n \in {10, 30}}
NameFields == {<<>>, <<Line("Name", <<113>>, NaN)>>}
MinutesFields == {<<>>} \cup {<<Line("Minutes", <<>>, n)>> : n \in {20, 45}}
HeaderTexts ==
  {Block(<<>>, <<Line("Title", <<98>>, NaN)>>, <<Line("Level", LevelName(1), NaN)>>,
         <<Line("Context", ContextOne, NaN)>>, <<h>> \o nm \o mi)
     : h \in HeaderLines, nm \in NameFields, mi \in MinutesFields}
HeaderInit == ParseInitWith(HeaderTexts, {<<>>})
HeaderSpec == HeaderInit /\ [][ImportNext]_vars

(* The name and the minutes the claim expects of the phase of a block *)
ExpectedPhase(block) ==
  LET h == block[Least(KeyLines(block, "PHASE"))]
  IN  [name |-> IF KeyLines(block, "Name") # {} THEN lastVal(block, "Name") ELSE h.val,
       minutes |-> IF KeyLines(block, "Minutes") # {}
                     THEN block[Greatest(KeyLines(block, "Minutes"))].num ELSE h.num]
NameAndMinutes(ph) == [name |-> ph.name, minutes |-> ph.minutes]

(* C32: the phase of a block has the name and the minutes of its compact    *)
(* header "PHASE n: name (Xm)", and the values of the "Name:" and           *)
(* "Minutes:" lines of the phase in their place where these are present; so *)
(* for the parse of a block and for every session of the catalog.           *)
C32_HeaderAndFields ==
  /\ \A k \in 1..Len(BlocksOf(clipboard)) :
       /\ IsParsed(ParseOne(BlocksOf(clipboard)[k], k))
       /\ Len(ParseOne(BlocksOf(clipboard)[k], k).phases) = 1
       /\ NameAndMinutes(ParseOne(BlocksOf(clipboard)[k], k).phases[1]) = ExpectedPhase(BlocksOf(clipboard)[k])
  /\ \A k \in 1..Len(sessions) :
       NameAndMinutes(sessions[k].phases[1]) = ExpectedPhase(BlocksOf(clipboard)[1])

(* The example block of the specification, and the same block with a        *)
(* "Context:" line; the text is the library file, and the catalog parsed    *)
(* from it is what the runner starts from.                                  *)
OrderCoffee == <<79, 114, 100, 101, 114, 32, 99, 111, 102, 102, 101, 101>>
FluencyLoop == <<70, 108, 117, 101, 110, 99, 121, 32, 108, 111, 111, 112>>
SayHello == <<83, 97, 121, 32, 104, 101, 108, 108, 111>>
AskForCoffee == <<65, 115, 107, 32, 102, 111, 114, 32, 99, 111, 102, 102, 101, 101>>
CoffeePhase ==
  <<Line("PHASE", FluencyLoop, 1), Line("HumanSteps", <<>>, NaN),
    Line("Text", <<42, 32>> \o SayHello, NaN), Line("Text", <<42, 32>> \o AskForCoffee, NaN)>>
CoffeeText ==
  Block(<<>>, <<Line("Title", OrderCoffee, NaN)>>, <<Line("Level", LevelName(2), NaN)>>, <<>>, CoffeePhase)
CoffeeWithContext ==
  Block(<<>>, <<Line("Title", OrderCoffee, NaN)>>, <<Line("Level", LevelName(2), NaN)>>,
        <<Line("Context", ContextOne, NaN)>>, CoffeePhase)
CoffeeTexts == {CoffeeText, CoffeeWithContext}
(* the catalog of a library text under the default level (Loaded at the start) *)
CatalogOf(text) ==
  IF variant = "App" THEN templates(parsePerfectHourText(text, LevelName(DefaultLevel), SourceFile), <<>>)
  ELSE Loaded(text, <<>>)
LevelNumber(l) == IF l \in LevelNames THEN CHOOSE lv \in Levels : LevelName(lv) = l ELSE DefaultLevel
(* the sessions of a parsed catalog as the runner holds them *)
Runnable(list) ==
  {Session(k, k, NoNumber, k, LevelNumber(list[k].level), 1,
           [i \in 1..Len(list[k].phases) |-> list[k].phases[i].minutes]) : k \in 1..Len(list)}
CoffeeInit ==
  /\ variant \in Variants
  /\ \E text \in CoffeeTexts :
    /\ InitWith([v \in {variant} |-> {Runnable(CatalogOf(text))}], {0}, DefaultModes)
    /\ libraryText = text
    /\ clipboard = <<>> /\ importPaste = <<>> /\ imported = <<>>
    /\ sessions = Loaded(libraryText, <<>>)
CoffeeNext ==
  \/ \E t \in library : startSessionFromTemplate(t)
  \/ toggleRun_App
  \/ Tick_App
  \/ TimeTick_App
  \/ \E t \in library : startTemplate(t)
  \/ toggleRun_P3
  \/ Tick_P3
  \/ \E s \in library : startFromSheet_P4(s)
  \/ \E s \in library : startFromSheet_P5(s)
  \/ toggleRun_Hook
  \/ Tick_Hook
  \/ Autopause_Hook
  \/ Advance
CoffeeSpec == CoffeeInit /\ [][CoffeeNext]_vars

(* C33: the example block gives exactly one session, of level A2, with one  *)
(* phase of 1 minute whose steps are "Say hello" and "Ask for coffee"; and  *)
(* the session started from it is in SessionComplete once 60 ticks have     *)
(* been applied.                                                            *)
C33_OrderCoffee ==
  /\ libraryText = CoffeeText =>
       /\ Len(sessions) = 1
       /\ sessions[1].title = OrderCoffee
       /\ sessions[1].level = LevelName(2)
       /\ Len(sessions[1].phases) = 1
       /\ sessions[1].phases[1].minutes = 1
       /\ sessions[1].phases[1].steps = <<SayHello, AskForCoffee>>
  /\ (libraryText = CoffeeText /\ Active /\ ticks = 60) => SessionComplete

====
